---- MODULE Spec2Model ----
(***************************************************************************)
(* Append-only radix-tree index (lib/indexedlog/src/index.rs).             *)
(*                                                                         *)
(* The file is a sequence of bytes.  A handle (Index) holds a read-only    *)
(* mapping of a prefix of the file, the root radix offset and the four     *)
(* staging vectors.  Entries are encoded and decoded byte by byte, so the  *)
(* lookup, insert and flush operators below work on the same bytes as the  *)
(* program does.                                                           *)
(***************************************************************************)
EXTENDS Integers, Sequences, FiniteSets, TLC

(***************************************************************************)
(* File-format constants.                                                  *)
(***************************************************************************)

\* The program uses 1 << 63.  TLC integers are 32 bits wide, so the dirty
\* bit is bit 30 here; every on-disk offset of the model is far below it.
DIRTY_OFFSET == 1073741824

TYPE_HEAD == 0
TYPE_ROOT == 1
TYPE_RADIX == 2
TYPE_LEAF == 3
TYPE_LINK == 4
TYPE_KEY == 5

TYPE_BITS == 3

TYPE_BYTES == 1
JUMPTABLE_BYTES == 16

\* Option::None for the optional arguments of insert_advanced.
None == -1

\* Result of to_disk when the translation is missing (unwrap on None).
UnwrapNone == -2

(***************************************************************************)
(* Results: Ok(v) or Err(kind).                                            *)
(***************************************************************************)
Ok(x) == [ok |-> TRUE, v |-> x]

Err(kind) == [ok |-> FALSE, err |-> kind]

InvalidData == Err("InvalidData")

Panic == Err("panic")

(***************************************************************************)
(* VLQ codec (crate vlqencoding): little-endian base 128, the high bit of  *)
(* a byte says that another byte follows.                                  *)
(***************************************************************************)
RECURSIVE write_vlq(_)
write_vlq(value) ==
    IF value < 128 THEN <<value>>
    ELSE <<(value % 128) + 128>> \o write_vlq(value \div 128)

\* (value, number of bytes read) of the VLQ at byte offset pos of buf.
RECURSIVE read_vlq_at(_, _)
read_vlq_at(buf, pos) ==
    IF pos < 0 \/ pos >= Len(buf) THEN InvalidData
    ELSE LET b == buf[pos + 1] IN
         IF b < 128 THEN [ok |-> TRUE, v |-> b, len |-> 1]
         ELSE LET r == read_vlq_at(buf, pos + 1) IN
              IF ~r.ok THEN r
              ELSE [ok |-> TRUE, v |-> (b - 128) + 128 * r.v, len |-> r.len + 1]

\* buf.get(i)
buf_get(buf, i) ==
    IF i >= 0 /\ i < Len(buf) THEN Ok(buf[i + 1]) ELSE InvalidData

(***************************************************************************)
(* Base16Iter::from_base256: the nibbles of a key, high nibble first.      *)
(***************************************************************************)
RECURSIVE Base16Iter(_)
Base16Iter(key) ==
    IF key = <<>> THEN <<>>
    ELSE <<Head(key) \div 16, Head(key) % 16>> \o Base16Iter(Tail(key))

(***************************************************************************)
(* Offsets.                                                                *)
(***************************************************************************)
is_null(offset) == offset = 0

is_dirty(offset) == offset >= DIRTY_OFFSET

from_disk(value) ==
    IF value >= DIRTY_OFFSET THEN InvalidData ELSE Ok(value)

\* Mutant of to_disk: a dirty offset is written as it is.
to_disk_unmapped(offset, offset_map) == offset

to_disk(offset, offset_map) ==
    IF is_dirty(offset)
    THEN (IF offset \in DOMAIN offset_map THEN offset_map[offset] ELSE UnwrapNone)
    ELSE offset

type_int(offset, buf) ==
    IF is_null(offset) THEN InvalidData
    ELSE IF is_dirty(offset) THEN Ok((offset - DIRTY_OFFSET) % (2 ^ TYPE_BITS))
    ELSE buf_get(buf, offset)

\* The type tag of the TypedOffset variant, or an error.
to_typed(offset, buf) ==
    LET t == type_int(offset, buf) IN
    IF ~t.ok THEN t
    ELSE IF t.v \in {TYPE_RADIX, TYPE_LEAF, TYPE_LINK, TYPE_KEY} THEN t
    ELSE InvalidData

dirty_index(offset) == (offset - DIRTY_OFFSET) \div (2 ^ TYPE_BITS)

\* Mutant of from_offset: the tag is not compared.
from_offset_unchecked(offset, buf, ty) == Ok(offset)

\* T::from_offset, T given by its type tag.
from_offset(offset, buf, ty) ==
    IF is_null(offset) THEN Ok(offset)
    ELSE LET t == type_int(offset, buf) IN
         IF ~t.ok THEN t
         ELSE IF t.v = ty THEN Ok(offset)
         ELSE InvalidData

\* T::from_dirty_index, T given by its type tag.
from_dirty_index(index, ty) == (index * (2 ^ TYPE_BITS) + ty) + DIRTY_OFFSET

\* from_disk followed by from_offset, as every on-disk reader does.
typed_from_disk(value, buf, ty) ==
    LET d == from_disk(value) IN
    IF ~d.ok THEN d ELSE from_offset(d.v, buf, ty)

(***************************************************************************)
(* In-memory entries.                                                      *)
(***************************************************************************)
MemRadix_default == [offsets |-> [i \in 0..15 |-> 0], link_offset |-> 0]

check_type(buf, offset, expected) ==
    LET t == buf_get(buf, offset) IN
    IF ~t.ok THEN t
    ELSE IF t.v # expected THEN InvalidData
    ELSE Ok(TRUE)

\* The loop of MemRadix::read_from over the jump table, from child i on.
RECURSIVE MemRadix_read_children(_, _, _, _, _, _)
MemRadix_read_children(buf, offset, jumptable, i, pos, offsets) ==
    IF i = 16 THEN Ok(offsets)
    ELSE IF jumptable[i + 1] # 0 THEN
        IF jumptable[i + 1] # pos THEN InvalidData
        ELSE LET r == read_vlq_at(buf, offset + pos) IN
             IF ~r.ok THEN r
             ELSE LET d == from_disk(r.v) IN
                  IF ~d.ok THEN d
                  ELSE MemRadix_read_children(buf, offset, jumptable, i + 1,
                           pos + r.len, [offsets EXCEPT ![i] = d.v])
    ELSE MemRadix_read_children(buf, offset, jumptable, i + 1, pos, offsets)

MemRadix_read_from(buf, offset) ==
    LET ct == check_type(buf, offset, TYPE_RADIX) IN
    IF ~ct.ok THEN ct
    ELSE IF offset + TYPE_BYTES + JUMPTABLE_BYTES > Len(buf) THEN InvalidData
    ELSE LET jumptable == SubSeq(buf, offset + TYPE_BYTES + 1,
                                 offset + TYPE_BYTES + JUMPTABLE_BYTES)
             pos == TYPE_BYTES + JUMPTABLE_BYTES
             l == read_vlq_at(buf, offset + pos)
         IN  IF ~l.ok THEN l
             ELSE LET link == typed_from_disk(l.v, buf, TYPE_LINK) IN
                  IF ~link.ok THEN link
                  ELSE LET c == MemRadix_read_children(buf, offset, jumptable, 0,
                                    pos + l.len, MemRadix_default.offsets)
                       IN  IF ~c.ok THEN c
                           ELSE Ok([offsets |-> c.v, link_offset |-> link.v])

\* The loop of MemRadix::write_to over the children, from child i on.
RECURSIVE MemRadix_write_children(_, _, _, _)
MemRadix_write_children(entry, offset_map, i, buf) ==
    IF i = 16 THEN buf
    ELSE LET v == entry.offsets[i] IN
         IF ~is_null(v)
         THEN MemRadix_write_children(entry, offset_map, i + 1,
                  [buf EXCEPT ![1 + i + 1] = Len(buf) % 256]
                      \o write_vlq(to_disk(v, offset_map)))
         ELSE MemRadix_write_children(entry, offset_map, i + 1, buf)

\* Mutant of MemRadix::write_to: the jump table counts from its own first
\* byte instead of from the first byte of the entry.
MemRadix_write_to_from_table(entry, offset_map) ==
    LET b == MemRadix_write_children(entry, offset_map, 0,
                 <<TYPE_RADIX>> \o [i \in 1..JUMPTABLE_BYTES |-> 0]
                     \o write_vlq(to_disk(entry.link_offset, offset_map)))
    IN  [n \in 1..Len(b) |->
            IF n \in 2..(TYPE_BYTES + JUMPTABLE_BYTES) /\ b[n] # 0
            THEN b[n] - TYPE_BYTES ELSE b[n]]

MemRadix_write_to(entry, offset_map) ==
    MemRadix_write_children(entry, offset_map, 0,
        <<TYPE_RADIX>> \o [i \in 1..JUMPTABLE_BYTES |-> 0]
            \o write_vlq(to_disk(entry.link_offset, offset_map)))

MemLeaf_read_from(buf, offset) ==
    LET ct == check_type(buf, offset, TYPE_LEAF) IN
    IF ~ct.ok THEN ct
    ELSE LET k == read_vlq_at(buf, offset + 1) IN
         IF ~k.ok THEN k
         ELSE LET key_offset == typed_from_disk(k.v, buf, TYPE_KEY) IN
              IF ~key_offset.ok THEN key_offset
              ELSE LET l == read_vlq_at(buf, offset + k.len + 1) IN
                   IF ~l.ok THEN l
                   ELSE LET link_offset == typed_from_disk(l.v, buf, TYPE_LINK) IN
                        IF ~link_offset.ok THEN link_offset
                        ELSE Ok([key_offset |-> key_offset.v,
                                 link_offset |-> link_offset.v])

\* Mutant of MemLeaf_write_to: the two offsets are written in the wrong order.
MemLeaf_write_to_swapped(entry, offset_map) ==
    <<TYPE_LEAF>> \o write_vlq(to_disk(entry.link_offset, offset_map))
                  \o write_vlq(to_disk(entry.key_offset, offset_map))

MemLeaf_write_to(entry, offset_map) ==
    <<TYPE_LEAF>> \o write_vlq(to_disk(entry.key_offset, offset_map))
                  \o write_vlq(to_disk(entry.link_offset, offset_map))

MemLink_read_from(buf, offset) ==
    LET ct == check_type(buf, offset, TYPE_LINK) IN
    IF ~ct.ok THEN ct
    ELSE LET v == read_vlq_at(buf, offset + 1) IN
         IF ~v.ok THEN v
         ELSE LET n == read_vlq_at(buf, offset + v.len + 1) IN
              IF ~n.ok THEN n
              ELSE LET next == typed_from_disk(n.v, buf, TYPE_LINK) IN
                   IF ~next.ok THEN next
                   ELSE Ok([value |-> v.v, next_link_offset |-> next.v])

MemLink_write_to(entry, offset_map) ==
    <<TYPE_LINK>> \o write_vlq(entry.value)
                  \o write_vlq(to_disk(entry.next_link_offset, offset_map))

MemKey_read_from(buf, offset) ==
    LET ct == check_type(buf, offset, TYPE_KEY) IN
    IF ~ct.ok THEN ct
    ELSE LET n == read_vlq_at(buf, offset + 1) IN
         IF ~n.ok THEN n
         ELSE IF offset + 1 + n.len + n.v > Len(buf) THEN InvalidData
         ELSE Ok([key |-> SubSeq(buf, offset + 1 + n.len + 1,
                                 offset + 1 + n.len + n.v)])

MemKey_write_to(entry, offset_map) ==
    <<TYPE_KEY>> \o write_vlq(Len(entry.key)) \o entry.key

\* A MemRoot is its radix_offset.
MemRoot_read_from(buf, offset) ==
    LET ct == check_type(buf, offset, TYPE_ROOT) IN
    IF ~ct.ok THEN ct
    ELSE LET r == read_vlq_at(buf, offset + 1) IN
         IF ~r.ok THEN r
         ELSE LET radix_offset == typed_from_disk(r.v, buf, TYPE_RADIX) IN
              IF ~radix_offset.ok THEN radix_offset
              ELSE LET l == read_vlq_at(buf, offset + 1 + r.len) IN
                   IF ~l.ok THEN l
                   ELSE IF l.v = 1 + r.len + 1 THEN Ok(radix_offset.v)
                   ELSE InvalidData

MemRoot_read_from_end(buf, end) ==
    IF end > 1
    THEN LET s == read_vlq_at(buf, end - 1) IN
         IF ~s.ok THEN s ELSE MemRoot_read_from(buf, end - s.v)
    ELSE InvalidData

MemRoot_write_to(radix_offset, offset_map) ==
    LET buf == <<TYPE_ROOT>> \o write_vlq(to_disk(radix_offset, offset_map))
    IN  buf \o write_vlq(Len(buf) + 1)

(***************************************************************************)
(* Index: [buf, read_only, root, dirty_radixes, dirty_leafs, dirty_links,  *)
(* dirty_keys, panic].  buf is the mapped bytes, root the radix_offset of  *)
(* the MemRoot, panic the message of a panic raised by an operation ("" if *)
(* none).  Vec index i of the program is sequence index i + 1.             *)
(***************************************************************************)
vec_get(vec, i) ==
    IF i >= 0 /\ i < Len(vec) THEN Ok(vec[i + 1]) ELSE Panic

RadixOffset_link_offset(radix, index) ==
    IF is_dirty(radix)
    THEN LET e == vec_get(index.dirty_radixes, dirty_index(radix)) IN
         IF ~e.ok THEN e ELSE Ok(e.v.link_offset)
    ELSE LET r == read_vlq_at(index.buf, TYPE_BYTES + JUMPTABLE_BYTES + radix) IN
         IF ~r.ok THEN r ELSE typed_from_disk(r.v, index.buf, TYPE_LINK)

RadixOffset_child(radix, index, i) ==
    IF is_dirty(radix)
    THEN LET e == vec_get(index.dirty_radixes, dirty_index(radix)) IN
         IF ~e.ok THEN e ELSE Ok(e.v.offsets[i])
    ELSE LET j == buf_get(index.buf, radix + TYPE_BYTES + i) IN
         IF ~j.ok THEN j
         ELSE LET r == read_vlq_at(index.buf, radix + j.v) IN
              IF ~r.ok THEN r ELSE from_disk(r.v)

\* Results of the operations that change the index: the new index and a value.
OkIx(ix, x) == [ok |-> TRUE, index |-> ix, v |-> x]

\* The error kind of a result, "" if it is Ok.
ErrOf(r) == IF r.ok THEN "" ELSE r.err

ErrIx(ix, kind) == [ok |-> FALSE, index |-> ix, err |-> kind]

\* Mutant of RadixOffset_copy: an on-disk radix is used where it is.
RadixOffset_copy_in_place(radix, index) == OkIx(index, radix)

RadixOffset_copy(radix, index) ==
    IF is_dirty(radix) THEN OkIx(index, radix)
    ELSE LET e == MemRadix_read_from(index.buf, radix) IN
         IF ~e.ok THEN ErrIx(index, e.err)
         ELSE OkIx([index EXCEPT !.dirty_radixes = Append(@, e.v)],
                   from_dirty_index(Len(index.dirty_radixes), TYPE_RADIX))

RadixOffset_set_child(radix, index, i, value) ==
    IF is_dirty(radix) /\ dirty_index(radix) < Len(index.dirty_radixes)
    THEN [index EXCEPT !.dirty_radixes[dirty_index(radix) + 1].offsets[i] = value]
    ELSE [index EXCEPT !.panic = "bug: set_child called on immutable radix entry"]

RadixOffset_set_link(radix, index, value) ==
    IF is_dirty(radix) /\ dirty_index(radix) < Len(index.dirty_radixes)
    THEN [index EXCEPT !.dirty_radixes[dirty_index(radix) + 1].link_offset = value]
    ELSE [index EXCEPT !.panic = "bug: set_link called on immutable radix entry"]

RadixOffset_create(index, radix) ==
    OkIx([index EXCEPT !.dirty_radixes = Append(@, radix)],
         from_dirty_index(Len(index.dirty_radixes), TYPE_RADIX))

LeafOffset_key_and_link_offset(leaf, index) ==
    IF is_dirty(leaf)
    THEN LET e == vec_get(index.dirty_leafs, dirty_index(leaf)) IN
         IF ~e.ok THEN e
         ELSE [ok |-> TRUE, key_offset |-> e.v.key_offset,
               link_offset |-> e.v.link_offset]
    ELSE LET k == read_vlq_at(index.buf, leaf + TYPE_BYTES) IN
         IF ~k.ok THEN k
         ELSE LET key_offset == typed_from_disk(k.v, index.buf, TYPE_KEY) IN
              IF ~key_offset.ok THEN key_offset
              ELSE LET l == read_vlq_at(index.buf, leaf + TYPE_BYTES + k.len) IN
                   IF ~l.ok THEN l
                   ELSE LET link_offset == typed_from_disk(l.v, index.buf, TYPE_LINK) IN
                        IF ~link_offset.ok THEN link_offset
                        ELSE [ok |-> TRUE, key_offset |-> key_offset.v,
                              link_offset |-> link_offset.v]

LeafOffset_create(index, link_offset, key_offset) ==
    OkIx([index EXCEPT !.dirty_leafs =
              Append(@, [key_offset |-> key_offset, link_offset |-> link_offset])],
         from_dirty_index(Len(index.dirty_leafs), TYPE_LEAF))

LeafOffset_set_link(leaf, index, link_offset) ==
    IF is_dirty(leaf)
    THEN IF dirty_index(leaf) < Len(index.dirty_leafs)
         THEN OkIx([index EXCEPT
                       !.dirty_leafs[dirty_index(leaf) + 1].link_offset = link_offset],
                   leaf)
         ELSE ErrIx(index, "panic")
    ELSE LET entry == MemLeaf_read_from(index.buf, leaf) IN
         IF ~entry.ok THEN ErrIx(index, entry.err)
         ELSE LeafOffset_create(index, link_offset, entry.v.key_offset)

LinkOffset_value(link, index) ==
    IF is_dirty(link)
    THEN LET e == vec_get(index.dirty_links, dirty_index(link)) IN
         IF ~e.ok THEN e ELSE Ok(e.v.value)
    ELSE LET r == read_vlq_at(index.buf, link + TYPE_BYTES) IN
         IF ~r.ok THEN r ELSE Ok(r.v)

\* Mutant of LinkOffset_create: a staged link that is continued is
\* overwritten with the new value.
LinkOffset_create_in_place(link, index, value) ==
    IF is_dirty(link) /\ dirty_index(link) < Len(index.dirty_links)
    THEN OkIx([index EXCEPT !.dirty_links[dirty_index(link) + 1].value = value], link)
    ELSE OkIx([index EXCEPT !.dirty_links =
                   Append(@, [value |-> value, next_link_offset |-> link])],
              from_dirty_index(Len(index.dirty_links), TYPE_LINK))

LinkOffset_create(link, index, value) ==
    OkIx([index EXCEPT !.dirty_links =
              Append(@, [value |-> value, next_link_offset |-> link])],
         from_dirty_index(Len(index.dirty_links), TYPE_LINK))

KeyOffset_key_content(key_offset, index) ==
    IF is_dirty(key_offset)
    THEN LET e == vec_get(index.dirty_keys, dirty_index(key_offset)) IN
         IF ~e.ok THEN e ELSE Ok(e.v.key)
    ELSE LET n == read_vlq_at(index.buf, key_offset + TYPE_BYTES) IN
         IF ~n.ok THEN n
         ELSE LET start == key_offset + TYPE_BYTES + n.len
                  end == start + n.v
              IN  IF end > Len(index.buf) THEN InvalidData
                  ELSE Ok(SubSeq(index.buf, start + 1, end))

KeyOffset_create(index, key) ==
    OkIx([index EXCEPT !.dirty_keys = Append(@, [key |-> key])],
         from_dirty_index(Len(index.dirty_keys), TYPE_KEY))

(***************************************************************************)
(* Index::get.  nibbles is what is left of the key's Base16Iter.           *)
(***************************************************************************)
RECURSIVE get_loop(_, _, _, _)
get_loop(index, key, offset, nibbles) ==
    IF is_null(offset) THEN Ok(0)
    ELSE LET t == to_typed(offset, index.buf) IN
         IF ~t.ok THEN t
         ELSE IF t.v = TYPE_RADIX THEN
             IF nibbles = <<>> THEN RadixOffset_link_offset(offset, index)
             ELSE LET c == RadixOffset_child(offset, index, Head(nibbles)) IN
                  IF ~c.ok THEN c
                  ELSE get_loop(index, key, c.v, Tail(nibbles))
         ELSE IF t.v = TYPE_LEAF THEN
             LET kl == LeafOffset_key_and_link_offset(offset, index) IN
             IF ~kl.ok THEN kl
             ELSE LET stored_key == KeyOffset_key_content(kl.key_offset, index) IN
                  IF ~stored_key.ok THEN stored_key
                  ELSE IF stored_key.v = key THEN Ok(kl.link_offset)
                  ELSE Ok(0)
         ELSE InvalidData

get(index, key) == get_loop(index, key, index.root, Base16Iter(key))

(***************************************************************************)
(* Index::insert_advanced, Index::split_leaf, maybe_create_link_entry.     *)
(* value and link are None or the argument.                                *)
(***************************************************************************)
\* Mutant of maybe_create_link_entry: the new link does not chain the old one.
maybe_create_link_entry_unchained(index, link_offset, value, link) ==
    LET l == IF link # None THEN link ELSE link_offset IN
    IF value # None THEN LinkOffset_create(0, index, value) ELSE OkIx(index, l)

\* Mutant of maybe_create_link_entry: the link argument is ignored.
maybe_create_link_entry_no_link(index, link_offset, value, link) ==
    IF value # None THEN LinkOffset_create(link_offset, index, value)
    ELSE OkIx(index, link_offset)

maybe_create_link_entry(index, link_offset, value, link) ==
    LET l == IF link # None THEN link ELSE link_offset IN
    IF value # None THEN LinkOffset_create(l, index, value) ELSE OkIx(index, l)

\* One iteration of the loop of split_leaf; pos is the position of both
\* nibble iterators.
RECURSIVE split_leaf_loop(_, _, _, _, _, _, _, _, _)
split_leaf_loop(index, old_leaf_offset, old_key, new_key, pos, last_radix_offset, last_radix_child, old_link_offset, new_link_offset) ==
    LET old_iter == Base16Iter(old_key)
        new_iter == Base16Iter(new_key)
        b1 == IF pos < Len(old_iter) THEN old_iter[pos + 1] ELSE None
        b2 == IF pos < Len(new_iter) THEN new_iter[pos + 1] ELSE None
        radix1 == IF b1 # None
                  THEN [MemRadix_default EXCEPT !.offsets[b1] = old_leaf_offset]
                  ELSE [MemRadix_default EXCEPT !.link_offset = old_link_offset]
        new_key_offset == KeyOffset_create(index, new_key)
        new_leaf_offset == LeafOffset_create(new_key_offset.index, new_link_offset,
                                             new_key_offset.v)
        completed == b2 = None \/ b1 # b2
        radix2 == IF b2 = None THEN [radix1 EXCEPT !.link_offset = new_link_offset]
                  ELSE IF b1 # b2
                  THEN [radix1 EXCEPT !.offsets[b2] = new_leaf_offset.v]
                  ELSE radix1
        index2 == IF b2 # None /\ b1 # b2 THEN new_leaf_offset.index ELSE index
        offset == RadixOffset_create(index2, radix2)
        index3 == RadixOffset_set_child(last_radix_offset, offset.index,
                                        last_radix_child, offset.v)
    IN  IF completed THEN OkIx(index3, TRUE)
        ELSE split_leaf_loop(index3, old_leaf_offset, old_key, new_key, pos + 1,
                             offset.v, b2, old_link_offset, new_link_offset)

\* Mutant of split_leaf: the iterators do not skip the step nibbles that the
\* walk has consumed.
split_leaf_no_skip(index, old_leaf_offset, old_key_offset, new_key, step, radix_offset, child, old_link_offset, new_link_offset) ==
    LET old_key == KeyOffset_key_content(old_key_offset, index) IN
    IF ~old_key.ok THEN ErrIx(index, old_key.err)
    ELSE split_leaf_loop(index, old_leaf_offset, old_key.v, new_key, 0,
                         radix_offset, child, old_link_offset, new_link_offset)

split_leaf(index, old_leaf_offset, old_key_offset, new_key, step, radix_offset, child, old_link_offset, new_link_offset) ==
    LET old_key == KeyOffset_key_content(old_key_offset, index) IN
    IF ~old_key.ok THEN ErrIx(index, old_key.err)
    ELSE split_leaf_loop(index, old_leaf_offset, old_key.v, new_key, step,
                         radix_offset, child, old_link_offset, new_link_offset)

\* One iteration of the loop of insert_advanced.
RECURSIVE insert_loop(_, _, _, _, _, _, _, _)

\* Mutant of insert_radix_link: the link is created but not stored in the
\* radix.
insert_radix_link_unset(index, radix, value, link, old_link_offset) ==
    IF ~old_link_offset.ok THEN ErrIx(index, old_link_offset.err)
    ELSE OkIx(maybe_create_link_entry(index, old_link_offset.v, value, link).index, TRUE)

\* The radix holds the whole key: its link slot gets the value.
insert_radix_link(index, radix, value, link, old_link_offset) ==
    IF ~old_link_offset.ok THEN ErrIx(index, old_link_offset.err)
    ELSE LET new_link_offset ==
                 maybe_create_link_entry(index, old_link_offset.v, value, link)
         IN  OkIx(RadixOffset_set_link(radix, new_link_offset.index,
                                       new_link_offset.v), TRUE)

\* The child slot x of the radix is empty: a new leaf goes there.
insert_new_leaf(index, radix, x, key, value, link) ==
    LET link_offset == maybe_create_link_entry(index, 0, value, link)
        key_offset == KeyOffset_create(link_offset.index, key)
        leaf_offset == LeafOffset_create(key_offset.index, link_offset.v,
                                         key_offset.v)
    IN  OkIx(RadixOffset_set_child(radix, leaf_offset.index, x, leaf_offset.v),
             TRUE)

\* The child slot x of the radix holds next_offset: follow it, or fill it.
insert_radix_child(index, radix, key, value, link, step, x, next_offset) ==
    IF ~next_offset.ok THEN ErrIx(index, next_offset.err)
    ELSE IF is_null(next_offset.v)
    THEN insert_new_leaf(index, radix, x, key, value, link)
    ELSE insert_loop(index, key, value, link, next_offset.v, step + 1, radix, x)

\* The walk is at the dirty radix: take the next nibble of the key.
insert_radix_next(index, radix, key, value, link, step, iter) ==
    IF step >= Len(iter)
    THEN insert_radix_link(index, radix, value, link,
                           RadixOffset_link_offset(radix, index))
    ELSE insert_radix_child(index, radix, key, value, link, step, iter[step + 1],
                            RadixOffset_child(radix, index, iter[step + 1]))

\* The walk reached a radix entry; cp is its dirty copy, which replaces it in
\* the parent (or as the root).
insert_radix(cp, key, value, link, step, last_radix, last_child) ==
    IF ~cp.ok THEN cp
    ELSE insert_radix_next(IF step = 0 THEN [cp.index EXCEPT !.root = cp.v]
                           ELSE RadixOffset_set_child(last_radix, cp.index,
                                                      last_child, cp.v),
                           cp.v, key, value, link, step, Base16Iter(key))

\* The leaf holds the key: a copy of the leaf with the new link replaces it.
insert_leaf_set_link(last_radix, last_child, new_leaf_offset) ==
    IF ~new_leaf_offset.ok THEN new_leaf_offset
    ELSE OkIx(RadixOffset_set_child(last_radix, new_leaf_offset.index, last_child,
                                    new_leaf_offset.v), TRUE)

\* Mutant of insert_leaf_split: the old link of the leaf is passed as the
\* new link.
insert_leaf_split_old_link(new_link_offset, offset, key_offset, key, step, last_radix, last_child, link_offset) ==
    split_leaf(new_link_offset.index, offset, key_offset, key, step, last_radix,
               last_child, link_offset, link_offset)

\* Mutant of insert_leaf_split: the link of the old leaf is not passed on.
insert_leaf_split_no_old_link(new_link_offset, offset, key_offset, key, step, last_radix, last_child, link_offset) ==
    split_leaf(new_link_offset.index, offset, key_offset, key, step, last_radix,
               last_child, 0, new_link_offset.v)

\* The leaf holds another key: split it.
insert_leaf_split(new_link_offset, offset, key_offset, key, step, last_radix, last_child, link_offset) ==
    split_leaf(new_link_offset.index, offset, key_offset, key, step, last_radix,
               last_child, link_offset, new_link_offset.v)

insert_leaf_link(offset, new_link_offset) ==
    LeafOffset_set_link(offset, new_link_offset.index, new_link_offset.v)

\* The walk reached a leaf entry whose key is stored_key.
insert_leaf_key(index, key, value, link, offset, step, last_radix, last_child, kl, stored_key) ==
    IF ~stored_key.ok THEN ErrIx(index, stored_key.err)
    ELSE IF stored_key.v = key
    THEN insert_leaf_set_link(last_radix, last_child,
             insert_leaf_link(offset,
                 maybe_create_link_entry(index, kl.link_offset, value, link)))
    ELSE insert_leaf_split(maybe_create_link_entry(index, 0, value, link), offset,
                           kl.key_offset, key, step, last_radix, last_child,
                           kl.link_offset)

\* The walk reached a leaf entry; kl is its key and link offsets.
insert_leaf(index, key, value, link, offset, step, last_radix, last_child, kl) ==
    IF ~kl.ok THEN ErrIx(index, kl.err)
    ELSE insert_leaf_key(index, key, value, link, offset, step, last_radix,
                         last_child, kl, KeyOffset_key_content(kl.key_offset, index))

\* The loop of insert_advanced: offset is the entry reached after step nibbles.
insert_loop(index, key, value, link, offset, step, last_radix, last_child) ==
    LET t == to_typed(offset, index.buf) IN
    IF ~t.ok THEN ErrIx(index, t.err)
    ELSE IF t.v = TYPE_RADIX
    THEN insert_radix(RadixOffset_copy(offset, index), key, value, link, step,
                      last_radix, last_child)
    ELSE IF t.v = TYPE_LEAF
    THEN insert_leaf(index, key, value, link, offset, step, last_radix, last_child,
                     LeafOffset_key_and_link_offset(offset, index))
    ELSE ErrIx(index, "InvalidData")

\* A panic of a nested call (a write to an entry that is not dirty) ends the
\* insertion.
insert_result(r) == IF r.index.panic # "" THEN ErrIx(r.index, "panic") ELSE r

insert_advanced(index, key, value, link) ==
    insert_result(insert_loop(index, key, value, link, index.root, 0, 0, 0))

insert(index, key, value) == insert_advanced(index, key, value, None)

(***************************************************************************)
(* The buffer Index::flush builds under the lock, len being the file       *)
(* length found by the seek to the end.                                    *)
(***************************************************************************)
entry_write_to(ty, entry, offset_map) ==
    CASE ty = TYPE_KEY -> MemKey_write_to(entry, offset_map)
      [] ty = TYPE_LINK -> MemLink_write_to(entry, offset_map)
      [] ty = TYPE_LEAF -> MemLeaf_write_to(entry, offset_map)
      [] ty = TYPE_RADIX -> MemRadix_write_to(entry, offset_map)

\* One of the four for loops of flush: the entries of vec, of type ty, in
\* the given order of vec indices.  acc is [buf, offset_map].
\* Mutant of flush_entries: the offset of an entry is taken after the entry
\* is written.
RECURSIVE flush_entries_after(_, _, _, _, _)
flush_entries_after(vec, ty, order, len, acc) ==
    IF order = <<>> THEN acc
    ELSE LET i == Head(order)
             buf == acc.buf \o entry_write_to(ty, vec[i + 1], acc.offset_map)
         IN  flush_entries_after(vec, ty, Tail(order), len,
                 [buf |-> buf,
                  offset_map |-> acc.offset_map @@
                                 (from_dirty_index(i, ty) :> Len(buf) + len)])

RECURSIVE flush_entries(_, _, _, _, _)
flush_entries(vec, ty, order, len, acc) ==
    IF order = <<>> THEN acc
    ELSE LET i == Head(order)
             offset == Len(acc.buf) + len
         IN  flush_entries(vec, ty, Tail(order), len,
                 [buf |-> acc.buf \o entry_write_to(ty, vec[i + 1], acc.offset_map),
                  offset_map |-> acc.offset_map @@
                                 (from_dirty_index(i, ty) :> offset)])

forward(vec) == [j \in 1..Len(vec) |-> j - 1]

\* Mutant of reversed: the radixes are written in staging order.
reversed_forward(vec) == forward(vec)

reversed(vec) == [j \in 1..Len(vec) |-> Len(vec) - j]

\* Mutant of flush_dirty_entries: the links are written before the keys.
flush_dirty_entries_links_first(index, len) ==
    LET a0 == [buf |-> IF len = 0 THEN <<TYPE_HEAD>> ELSE <<>>,
               offset_map |-> [o \in {} |-> 0]]
        a1 == flush_entries(index.dirty_links, TYPE_LINK, forward(index.dirty_links),
                            len, a0)
        a2 == flush_entries(index.dirty_keys, TYPE_KEY, forward(index.dirty_keys),
                            len, a1)
        a3 == flush_entries(index.dirty_leafs, TYPE_LEAF, forward(index.dirty_leafs),
                            len, a2)
    IN  flush_entries(index.dirty_radixes, TYPE_RADIX,
                      reversed(index.dirty_radixes), len, a3)

\* The four for loops of flush: [buf, offset_map] before the root is written.
flush_dirty_entries(index, len) ==
    LET a0 == [buf |-> IF len = 0 THEN <<TYPE_HEAD>> ELSE <<>>,
               offset_map |-> [o \in {} |-> 0]]
        a1 == flush_entries(index.dirty_keys, TYPE_KEY, forward(index.dirty_keys),
                            len, a0)
        a2 == flush_entries(index.dirty_links, TYPE_LINK, forward(index.dirty_links),
                            len, a1)
        a3 == flush_entries(index.dirty_leafs, TYPE_LEAF, forward(index.dirty_leafs),
                            len, a2)
    IN  flush_entries(index.dirty_radixes, TYPE_RADIX,
                      reversed(index.dirty_radixes), len, a3)

\* Mutant of flush_buf: root_offset is relative to the appended buffer.
flush_buf_relative(index, len) ==
    LET a4 == flush_dirty_entries(index, len)
        buf == a4.buf \o MemRoot_write_to(index.root, a4.offset_map)
    IN  [buf |-> buf,
         root_offset |-> Len(a4.buf),
         offset_map |-> a4.offset_map,
         panic |-> \E i \in 1..Len(buf) : buf[i] < 0]

flush_buf(index, len) ==
    LET a4 == flush_dirty_entries(index, len)
        buf == a4.buf \o MemRoot_write_to(index.root, a4.offset_map)
    IN  [buf |-> buf,
         root_offset |-> Len(a4.buf) + len,
         offset_map |-> a4.offset_map,
         panic |-> \E i \in 1..Len(buf) : buf[i] < 0]

(***************************************************************************)
(* Index::open, Index::flush on a file given as its bytes.                 *)
(***************************************************************************)

\* utils::mmap_readonly: (mapped bytes, file length).  An empty file is
\* mapped as one anonymous zero byte ("Index { len: 1, ..." on a new file).
mmap_readonly(f) ==
    [buf |-> IF Len(f) = 0 THEN <<0>> ELSE f, len |-> Len(f)]

NewIndex(buf, read_only, root, dirty_radixes) ==
    [buf |-> buf, read_only |-> read_only, root |-> root,
     dirty_radixes |-> dirty_radixes, dirty_leafs |-> <<>>,
     dirty_links |-> <<>>, dirty_keys |-> <<>>, panic |-> ""]

\* Index::open on file bytes f.  read_only says whether the read-write open
\* failed and the file was opened read-only instead.
open(f, root_offset, read_only) ==
    LET m == mmap_readonly(f) IN
    IF root_offset = 0 THEN
        IF m.len = 0
        THEN Ok(NewIndex(m.buf, read_only, from_dirty_index(0, TYPE_RADIX),
                         <<MemRadix_default>>))
        ELSE LET root == MemRoot_read_from_end(m.buf, m.len) IN
             IF ~root.ok THEN root
             ELSE Ok(NewIndex(m.buf, read_only, root.v, <<>>))
    ELSE LET root == MemRoot_read_from(m.buf, root_offset) IN
         IF ~root.ok THEN root
         ELSE Ok(NewIndex(m.buf, read_only, root.v, <<>>))

\* Mutant of write_all: the write also rewrites the first byte of the file.
write_all_over_header(f, buf) ==
    IF f = <<>> THEN buf ELSE <<(Head(f) + 1) % 256>> \o Tail(f) \o buf

\* Mutant of write_all: the file is truncated, and the write at the old end
\* leaves zeros before it.
write_all_zeroing(f, buf) == [i \in 1..Len(f) |-> 0] \o buf

\* lock.as_mut().write_all(&buf) on a file opened with append(true).
write_all(f, buf) == f \o buf

\* Mutant of flush_remap: no check of the length after the write.
flush_remap_unchecked(index, f2, len, built) ==
    LET m == mmap_readonly(f2)
        root == MemRoot_read_from_end(m.buf, m.len)
    IN  IF ~root.ok THEN ErrIx([index EXCEPT !.buf = m.buf], root.err)
        ELSE OkIx([index EXCEPT !.buf = m.buf, !.root = root.v,
                                !.dirty_radixes = <<>>, !.dirty_leafs = <<>>,
                                !.dirty_links = <<>>, !.dirty_keys = <<>>],
                  built.root_offset)

\* Index::flush from the remap on: f2 is the file after the write, len the
\* length found by the seek, built the result of flush_buf.
\* Mutant of flush_remap: the staging vectors are not cleared.
flush_remap_uncleared(index, f2, len, built) ==
    LET m == mmap_readonly(f2)
        index1 == [index EXCEPT !.buf = m.buf]
    IN  IF m.len # Len(built.buf) + len THEN ErrIx(index1, "UnexpectedEof")
        ELSE LET root == MemRoot_read_from_end(m.buf, m.len) IN
             IF ~root.ok THEN ErrIx(index1, root.err)
             ELSE OkIx([index1 EXCEPT !.root = root.v], built.root_offset)

flush_remap(index, f2, len, built) ==
    LET m == mmap_readonly(f2)
        index1 == [index EXCEPT !.buf = m.buf]
    IN  IF m.len # Len(built.buf) + len THEN ErrIx(index1, "UnexpectedEof")
        ELSE LET root == MemRoot_read_from_end(m.buf, m.len) IN
             IF ~root.ok THEN ErrIx(index1, root.err)
             ELSE OkIx([index1 EXCEPT !.root = root.v,
                                      !.dirty_radixes = <<>>,
                                      !.dirty_leafs = <<>>,
                                      !.dirty_links = <<>>,
                                      !.dirty_keys = <<>>],
                       built.root_offset)

\* Mutant of flush_early: a read-only handle goes on to write.
flush_early_writable(index) ==
    IF ~is_dirty(index.root) THEN <<OkIx(index, 0)>> ELSE <<>>

\* The early returns of Index::flush: <<result>>, or <<>> if flush goes on.
flush_early(index) ==
    IF index.read_only THEN <<ErrIx(index, "PermissionDenied")>>
    ELSE IF ~is_dirty(index.root) THEN <<OkIx(index, 0)>>
    ELSE <<>>

\* Mutant of flush: no early return when the root is on disk.
flush_always(index, f) ==
    IF index.read_only
    THEN [file |-> f, ret |-> ErrIx(index, "PermissionDenied")]
    ELSE LET f2 == write_all(f, flush_buf(index, Len(f)).buf) IN
         [file |-> f2,
          ret |-> flush_remap(index, f2, Len(f), flush_buf(index, Len(f)))]

\* Mutant of flush: L is the length of the mapping of the handle, not the
\* end of the file found by the seek.
flush_mapped_len(index, f) ==
    IF flush_early(index) # <<>>
    THEN [file |-> f, ret |-> flush_early(index)[1]]
    ELSE LET len == IF f = <<>> THEN 0 ELSE Len(index.buf)
             built == flush_buf(index, len)
         IN  IF built.panic
             THEN [file |-> f, ret |-> ErrIx(index, "panic")]
             ELSE LET f2 == write_all(f, built.buf) IN
                  [file |-> f2, ret |-> flush_remap(index, f2, len, built)]

\* Index::flush with nothing else touching the file inside the critical
\* section: [file, index, ret].
flush(index, f) ==
    IF flush_early(index) # <<>>
    THEN [file |-> f, ret |-> flush_early(index)[1]]
    ELSE LET len == Len(f)
             built == flush_buf(index, len)
         IN  IF built.panic
             THEN [file |-> f, ret |-> ErrIx(index, "panic")]
             ELSE LET f2 == write_all(f, built.buf) IN
                  [file |-> f2, ret |-> flush_remap(index, f2, len, built)]

(***************************************************************************)
(* The value chain of a key as a caller sees it: the values from the head  *)
(* link get returns, following next_link_offset to null.  <<-1>> stands    *)
(* for an error.                                                           *)
(***************************************************************************)
ChainError == <<-1>>

LinkOffset_next(link, index) ==
    IF is_dirty(link)
    THEN LET e == vec_get(index.dirty_links, dirty_index(link)) IN
         IF ~e.ok THEN e ELSE Ok(e.v.next_link_offset)
    ELSE LET e == MemLink_read_from(index.buf, link) IN
         IF ~e.ok THEN e ELSE Ok(e.v.next_link_offset)

RECURSIVE chain_from(_, _, _)
chain_from(index, link, fuel) ==
    IF is_null(link) THEN <<>>
    ELSE IF fuel = 0 THEN ChainError
    ELSE LET v == LinkOffset_value(link, index)
             n == LinkOffset_next(link, index)
         IN  IF ~v.ok \/ ~n.ok THEN ChainError
             ELSE LET rest == chain_from(index, n.v, fuel - 1) IN
                  IF rest = ChainError THEN ChainError ELSE <<v.v>> \o rest

(***************************************************************************)
(* The state machine: one file and the handles opened on it.               *)
(***************************************************************************)

\* Inputs of the model.
Handles == {"H1", "H2"}

Keys == {<<>>, <<18>>, <<18, 52>>, <<18, 120>>}

\* The n-th insert of a behaviour inserts ValueOf(n): the values are distinct,
\* and every second one needs a two-byte VLQ.
ValueOf(n) == 5 + 130 * n

\* Bounds of the model: operations performed in one behaviour.
MaxInserts == 2

MaxFlushes == 1

\* Interrupted flushes and appends by a writer that ignores the lock.
MaxCrashes == 1

MaxForeign == 1

\* Longest chain followed by Chain.
MaxChain == 4

\* Flushes begun in one behaviour of SpecRace.
MaxRaceFlushes == 2

VARIABLES
    file,       \* the bytes of the index file
    handle,     \* per handle: Index without buf, plus the mapping length
    expect,     \* per handle: the chain each key should have (newest first)
    roots,      \* root offsets returned by flush, each with the chains committed
                \* and the view the flushing handle had before the flush
    last,       \* the last operation: handle, operation, result
    count,      \* operations performed so far
    pending     \* per handle: the flush that holds the file lock, between
                \* its seek to the end and its write; <<>> otherwise

vars == <<file, handle, expect, roots, last, count, pending>>

Closed == [open |-> FALSE]

NoChains == [k \in Keys |-> <<>>]

\* The mapped bytes of a handle: the first maplen bytes of the file, or the
\* anonymous zero byte of a mapping made of the empty file.
Buf(f, maplen) ==
    IF maplen = 0 THEN <<0>>
    ELSE IF maplen = Len(f) THEN f
    ELSE SubSeq(f, 1, maplen)

\* The Index of an open handle.
IndexOf(hd, f) ==
    [buf |-> Buf(f, hd.maplen), read_only |-> hd.read_only, root |-> hd.root,
     dirty_radixes |-> hd.dirty_radixes, dirty_leafs |-> hd.dirty_leafs,
     dirty_links |-> hd.dirty_links, dirty_keys |-> hd.dirty_keys, panic |-> ""]

\* The handle state of an Index whose mapping has length maplen.
HandleOf(index, maplen) ==
    [open |-> TRUE, maplen |-> maplen, read_only |-> index.read_only,
     root |-> index.root,
     dirty_radixes |-> index.dirty_radixes, dirty_leafs |-> index.dirty_leafs,
     dirty_links |-> index.dirty_links, dirty_keys |-> index.dirty_keys]

\* What a caller reads for key k: the value chain, or ChainError.
Chain(index, k) ==
    LET l == get(index, k) IN
    IF ~l.ok THEN ChainError ELSE chain_from(index, l.v, MaxChain)

View(index) == [k \in Keys |-> Chain(index, k)]

\* The chains committed by the newest root of the file.
TipChains == IF roots = <<>> THEN NoChains ELSE roots[Len(roots)].chains

RootOffsets == {roots[i].r : i \in 1..Len(roots)}

ChainsAt(r) == (CHOOSE i \in 1..Len(roots) : roots[i].r = r)

(***************************************************************************)
(* The file a behaviour starts with is either new (no bytes) or the file   *)
(* left by an earlier session that flushed three times: the empty index,   *)
(* then key 12 34 with value 3, then value 200 for the same key.           *)
(***************************************************************************)
\* A session flushes index to the file of seed s, and commits chains.
SeedFlushed(s, index, chains, r) ==
    [file |-> r.file, index |-> r.ret.index,
     roots |-> IF r.ret.ok
               THEN Append(s.roots, [r |-> r.ret.v, chains |-> chains,
                                     view |-> View(index)])
               ELSE s.roots]

SeedFlush(s, index, chains) == SeedFlushed(s, index, chains, flush(index, s.file))

\* A session inserts value for key and flushes.
SeedInsertFlush(s, key, value, chains) ==
    SeedFlush(s, insert(s.index, key, value).index, chains)

\* No file yet.
Seed0 == [file |-> <<>>, roots |-> <<>>]

Seed1 == SeedFlush(Seed0, open(<<>>, 0, FALSE).v, NoChains)

Seed2 ==
    SeedInsertFlush(Seed1, <<18, 52>>, 3, [NoChains EXCEPT ![<<18, 52>>] = <<3>>])

Seed3 ==
    SeedInsertFlush(Seed2, <<18, 52>>, 200,
                    [NoChains EXCEPT ![<<18, 52>>] = <<200, 3>>])

\* The handle made by Index::open that returned r, Closed if it failed.
OpenedHandle(r, maplen) == IF r.ok THEN HandleOf(r.v, maplen) ELSE Closed

InitFiles == {Seed0, Seed3}

Init ==
    /\ \E s \in InitFiles : file = s.file /\ roots = s.roots
    /\ handle = [h \in Handles |->
                    IF h = "H1" THEN OpenedHandle(open(file, 0, FALSE), Len(file))
                    ELSE Closed]
    /\ expect = [h \in Handles |-> IF h = "H1" THEN TipChains ELSE NoChains]
    /\ last = [h |-> "H1", op |-> "open", ok |-> TRUE, v |-> 0, err |-> ""]
    /\ count = [inserts |-> 0, flushes |-> 0, crashes |-> 0, foreign |-> 0]
    /\ pending = [h \in Handles |-> <<>>]

\* No flush holds the exclusive file lock.
Unlocked == \A h \in Handles : pending[h] = <<>>

\* Index::open(path, root_offset) returned r to handle h.
Opened(h, root_offset, r) ==
    /\ handle' = IF r.ok THEN [handle EXCEPT ![h] = HandleOf(r.v, Len(file))]
                 ELSE handle
    /\ expect' = IF r.ok
                 THEN [expect EXCEPT ![h] =
                          IF root_offset = 0 THEN TipChains
                          ELSE roots[ChainsAt(root_offset)].chains]
                 ELSE expect
    /\ last' = [h |-> h, op |-> "open", ok |-> r.ok, v |-> root_offset,
                err |-> ErrOf(r)]
    /\ UNCHANGED <<file, roots, count, pending>>

\* Mutant of OpenLock: open reads the file length without the lock.
OpenLock_none(root_offset) == TRUE

\* With root_offset 0, open takes the shared lock to read the file length:
\* it waits for a flush that holds the exclusive lock.
OpenLock(root_offset) == root_offset = 0 => Unlocked

\* Index::open(path, root_offset) makes handle h; a closed handle is opened.
\* read_only: the file cannot be opened for writing.
Open(h, root_offset, read_only) ==
    /\ ~handle[h].open
    /\ OpenLock(root_offset)
    /\ Opened(h, root_offset, open(file, root_offset, read_only))

\* index.insert(key, value) on handle h returned r.
Inserted(h, key, value, r) ==
    /\ handle' = [handle EXCEPT ![h] = HandleOf(r.index, handle[h].maplen)]
    /\ expect' = IF r.ok THEN [expect EXCEPT ![h][key] = <<value>> \o @]
                 ELSE expect
    /\ last' = [h |-> h, op |-> "insert", ok |-> r.ok, v |-> 0, err |-> ErrOf(r)]
    /\ count' = [count EXCEPT !.inserts = @ + 1]
    /\ UNCHANGED <<file, roots, pending>>

\* index.insert(key, value) on handle h.
Insert(h, key) ==
    /\ handle[h].open
    /\ pending[h] = <<>>
    /\ count.inserts < MaxInserts
    /\ Len(expect[h][key]) < MaxChain
    /\ Inserted(h, key, ValueOf(count.inserts),
                insert(IndexOf(handle[h], file), key, ValueOf(count.inserts)))

\* index.flush() on handle h, which read view before the call, returned r.
Flushed(h, view, r) ==
    /\ file' = r.file
    /\ handle' = [handle EXCEPT ![h] =
                     IF r.ret.ok /\ r.ret.v = 0 THEN @
                     ELSE HandleOf(r.ret.index, Len(r.file))]
    /\ roots' = IF r.ret.ok /\ r.ret.v # 0
                THEN Append(roots, [r |-> r.ret.v, chains |-> expect[h],
                                    view |-> view])
                ELSE roots
    /\ last' = [h |-> h, op |-> "flush", ok |-> r.ret.ok,
                v |-> IF r.ret.ok THEN r.ret.v ELSE 0, err |-> ErrOf(r.ret)]
    /\ count' = IF r.ret.ok /\ r.ret.v = 0 THEN count
                ELSE [count EXCEPT !.flushes = @ + 1]
    /\ UNCHANGED <<expect, pending>>

\* index.flush() on handle h, the whole critical section in one step.  A
\* flush that has nothing to write is not counted.
Flush(h) ==
    /\ handle[h].open
    /\ Unlocked
    /\ count.flushes < MaxFlushes \/ ~is_dirty(handle[h].root)
    /\ Flushed(h, View(IndexOf(handle[h], file)),
               flush(IndexOf(handle[h], file), file))

Next ==
    \/ \E h \in Handles, r \in {0} \cup RootOffsets : Open(h, r, FALSE)
    \/ \E h \in Handles, k \in Keys : Insert(h, k)
    \/ \E h \in Handles : Flush(h)

Spec == Init /\ [][Next]_vars

(***************************************************************************)
(* SpecCrash: the process of a handle may die inside write_all, after a    *)
(* proper prefix of the buffer of its flush has reached the file.          *)
(***************************************************************************)

\* The root Index::open(path, 0) finds from the end of file f.
Tip(f) == MemRoot_read_from_end(mmap_readonly(f).buf, Len(f))

\* Where the write is cut: after the first byte, before the Root entry, and
\* before the last byte of the Root entry.
CrashCuts == {"first_byte", "before_root", "inside_root"}

\* The number of bytes of the buffer that reach the file.
CrashCut(built, len, cut) ==
    CASE cut = "first_byte" -> TYPE_BYTES
      [] cut = "before_root" -> built.root_offset - len
      [] cut = "inside_root" -> Len(built.buf) - 1

Crash(h, cut) ==
    /\ handle[h].open
    /\ Unlocked
    /\ count.crashes < MaxCrashes
    /\ ~handle[h].read_only
    /\ is_dirty(handle[h].root)
    /\ LET built == flush_buf(IndexOf(handle[h], file), Len(file)) IN
       /\ ~built.panic
       /\ file' = write_all(file, SubSeq(built.buf, 1, CrashCut(built, Len(file), cut)))
    /\ handle' = [handle EXCEPT ![h] = Closed]
    /\ expect' = [expect EXCEPT ![h] = NoChains]
    /\ last' = [h |-> h, op |-> "crash", ok |-> FALSE, v |-> 0, err |-> "crash"]
    /\ count' = [count EXCEPT !.crashes = @ + 1]
    /\ UNCHANGED <<roots, pending>>

\* write_all fails after part of the buffer has reached the file: flush
\* returns the error, and the handle is as it was.
WriteError(h, cut) ==
    /\ handle[h].open
    /\ Unlocked
    /\ count.crashes < MaxCrashes
    /\ ~handle[h].read_only
    /\ is_dirty(handle[h].root)
    /\ LET built == flush_buf(IndexOf(handle[h], file), Len(file)) IN
       /\ ~built.panic
       /\ file' = write_all(file, SubSeq(built.buf, 1, CrashCut(built, Len(file), cut)))
    /\ last' = [h |-> h, op |-> "flush", ok |-> FALSE, v |-> 0, err |-> "WriteZero"]
    /\ count' = [count EXCEPT !.crashes = @ + 1]
    /\ UNCHANGED <<handle, expect, roots, pending>>

NextCrash ==
    \/ Next
    \/ \E h \in Handles, cut \in CrashCuts : Crash(h, cut)
    \/ \E h \in Handles, cut \in CrashCuts : WriteError(h, cut)

SpecCrash == Init /\ [][NextCrash]_vars

(***************************************************************************)
(* SpecRace: flush in two steps, the seek and the write, with the file     *)
(* lock held in between.  A writer that ignores the advisory lock may      *)
(* append in between, the remap after the write may fail, and the file may *)
(* be opened read-only.                                                    *)
(***************************************************************************)

\* Mutant of FlushLock: flush goes on without the lock.
FlushLock_none(h) == TRUE

\* ScopedFileLock::new(&mut self.file, true) returns to handle h: no other
\* flush is inside its critical section.
FlushLock(h) == \A g \in Handles \ {h} : pending[g] = <<>>

\* flush up to and including the build of the buffer.
FlushBegin(h) ==
    /\ handle[h].open
    /\ pending[h] = <<>>
    /\ count.flushes < MaxRaceFlushes
    /\ LET index == IndexOf(handle[h], file)
           built == flush_buf(index, Len(file))
       IN
       IF flush_early(index) # <<>>
       THEN /\ last' = [h |-> h, op |-> "flush", ok |-> flush_early(index)[1].ok,
                        v |-> 0, err |-> ErrOf(flush_early(index)[1])]
            /\ UNCHANGED <<pending, count>>
       ELSE IF built.panic
       THEN /\ last' = [h |-> h, op |-> "flush", ok |-> FALSE, v |-> 0,
                        err |-> "panic"]
            /\ UNCHANGED <<pending, count>>
       ELSE /\ FlushLock(h)
            /\ pending' = [pending EXCEPT ![h] =
                              << [len |-> Len(file), built |-> built,
                                  tip |-> Tip(file), written |-> 0] >>]
            /\ last' = [h |-> h, op |-> "seek", ok |-> TRUE, v |-> Len(file),
                        err |-> ""]
            /\ count' = [count EXCEPT !.flushes = @ + 1]
    /\ UNCHANGED <<file, handle, expect, roots>>

\* The cuts at which write_all may pause: it writes the buffer with one
\* write call or with several.
WriteCuts == {"before_root", "inside_root"}

\* write_all has written the buffer of the flush of h up to a cut.
FlushWrite(h, cut) ==
    /\ pending[h] # <<>>
    /\ pending[h][1].written = 0
    /\ file' = write_all(file, SubSeq(pending[h][1].built.buf, 1,
                                      CrashCut(pending[h][1].built, pending[h][1].len, cut)))
    /\ pending' = [pending EXCEPT ![h][1].written =
                       CrashCut(pending[h][1].built, pending[h][1].len, cut)]
    /\ last' = [h |-> h, op |-> "write", ok |-> TRUE, v |-> pending'[h][1].written,
                err |-> ""]
    /\ UNCHANGED <<handle, expect, roots, count>>

\* flush from the end of write_all on.  mmap_ok: the remap after the write
\* succeeds.
FlushEnd(h, mmap_ok) ==
    /\ pending[h] # <<>>
    /\ LET p == pending[h][1]
           index == IndexOf(handle[h], file)
           f2 == write_all(file, SubSeq(p.built.buf, p.written + 1, Len(p.built.buf)))
           ret == IF mmap_ok THEN flush_remap(index, f2, p.len, p.built)
                  ELSE ErrIx(index, "Other")
       IN
       /\ file' = f2
       /\ handle' = [handle EXCEPT ![h] =
                        IF mmap_ok THEN HandleOf(ret.index, Len(f2)) ELSE @]
       /\ roots' = IF ret.ok
                   THEN Append(roots, [r |-> ret.v, chains |-> expect[h],
                                       view |-> View(index)])
                   ELSE roots
       /\ last' = [h |-> h, op |-> "flush", ok |-> ret.ok,
                   v |-> IF ret.ok THEN ret.v ELSE 0, err |-> ErrOf(ret)]
    /\ pending' = [pending EXCEPT ![h] = <<>>]
    /\ UNCHANGED <<expect, count>>

\* A writer that does not take the lock appends one byte while a flush
\* holds it.
ForeignAppend ==
    /\ ~Unlocked
    /\ count.foreign < MaxForeign
    /\ file' = file \o <<0>>
    /\ count' = [count EXCEPT !.foreign = @ + 1]
    /\ last' = [h |-> "other", op |-> "append", ok |-> TRUE, v |-> 0, err |-> ""]
    /\ UNCHANGED <<handle, expect, roots, pending>>

NextRace ==
    \/ \E h \in Handles, r \in {0} \cup RootOffsets, ro \in BOOLEAN : Open(h, r, ro)
    \/ \E h \in Handles, k \in Keys : Insert(h, k)
    \/ \E h \in Handles : FlushBegin(h)
    \/ \E h \in Handles, cut \in WriteCuts : FlushWrite(h, cut)
    \/ \E h \in Handles, mmap_ok \in BOOLEAN : FlushEnd(h, mmap_ok)
    \/ ForeignAppend

SpecRace == Init /\ [][NextRace]_vars

(***************************************************************************)
(* Properties.                                                             *)
(***************************************************************************)
Index_(h) == IndexOf(handle[h], file)

\* The result of get for every key.
Gets(index) == [k \in Keys |-> get(index, k)]

FlushedNow == last.op = "flush" /\ last.ok /\ last.v # 0

\* C1: every key inserted through a handle, or committed by the root the
\* handle was opened at, is found by get: the link offset returned is not
\* null and its value is the value inserted last for the key.  This holds for
\* unflushed handles, for flushed ones and for handles opened at a root
\* offset returned by flush.
C1_InsertedKeysReadBack ==
    \A h \in Handles : handle[h].open =>
        \A k \in Keys : expect[h][k] # <<>> =>
            LET l == get(Index_(h), k) IN
            /\ l.ok
            /\ ~is_null(l.v)
            /\ LinkOffset_value(l.v, Index_(h)) = Ok(Head(expect[h][k]))

\* Two distinct keys inserted once each into a new index, flushed, and read
\* through a second handle opened at the returned root offset.
C1_Witness ==
    /\ Len(roots) = 1
    /\ last.op = "open" /\ last.h = "H2" /\ last.ok /\ last.v = roots[1].r
    /\ handle["H2"].open
    /\ Cardinality({k \in Keys : Len(expect["H2"][k]) = 1}) >= 2

\* C2: get returns the null link offset, without error, for every key that
\* was never inserted.
C2_AbsentKeysReadNull ==
    \A h \in Handles : handle[h].open =>
        \A k \in Keys : expect[h][k] = <<>> => get(Index_(h), k) = Ok(0)

\* C3: for every inserted key the chain read from the head link get returns
\* is the sequence of the values inserted for the key, newest first, ending
\* at the null offset.
C3_ChainsNewestFirst ==
    \A h \in Handles : handle[h].open =>
        \A k \in Keys : expect[h][k] # <<>> => Chain(Index_(h), k) = expect[h][k]

\* A chain of three values whose head is staged and whose tail is on disk.
C3_Witness ==
    \E h \in Handles, k \in Keys :
        /\ handle[h].open
        /\ Len(expect[h][k]) >= 3
        /\ get(Index_(h), k).ok
        /\ is_dirty(get(Index_(h), k).v)
        /\ handle[h].dirty_links # <<>>
        /\ ~is_dirty(handle[h].dirty_links[Len(handle[h].dirty_links)].next_link_offset)

\* C4: when flush returns r # 0, r is the offset of the Root entry it wrote,
\* and the flushing handle afterwards, a handle opened at r and a handle
\* opened with root_offset 0 all read, for every key, what the flushing
\* handle read just before the flush.
C4_FlushKeepsMapping ==
    [][(last'.op = "flush" /\ last'.ok /\ last'.v # 0) =>
          LET h == last'.h
              before == View(IndexOf(handle[h], file))
              at_r == open(file', last'.v, FALSE)
              at_end == open(file', 0, FALSE)
          IN  /\ last'.v >= Len(file)
              /\ buf_get(file', last'.v) = Ok(TYPE_ROOT)
              /\ View(IndexOf(handle'[h], file')) = before
              /\ at_r.ok /\ View(at_r.v) = before
              /\ at_end.ok /\ View(at_end.v) = before]_vars

\* C5: the file never shrinks and no byte written changes.
C5_AppendOnly ==
    [][Len(file') >= Len(file) /\ SubSeq(file', 1, Len(file)) = file]_vars

\* A flush has appended to a file that already held a flushed root.
C5_Witness == FlushedNow /\ Len(roots) >= 2 /\ Len(file) > roots[1].r + 3

\* C6: a step of another handle changes neither the state of an open handle
\* (its mapping length included) nor the result of any get on it.
C6_SnapshotStable ==
    [][\A h \in Handles : (handle[h].open /\ last'.h # h) =>
          /\ handle'[h] = handle[h]
          /\ Gets(IndexOf(handle'[h], file')) = Gets(IndexOf(handle[h], file))
          /\ View(IndexOf(handle'[h], file')) = View(IndexOf(handle[h], file))]_vars

\* H2 has inserted and flushed while H1 still maps the shorter file.
C6_Witness ==
    /\ FlushedNow /\ last.h = "H2"
    /\ handle["H1"].open
    /\ handle["H1"].maplen < Len(file)
    /\ expect["H2"] # expect["H1"]

\* C7: a handle opened at any root offset a flush has returned reads, for
\* every key, what the flushing handle read when it flushed, whatever has
\* been appended since.
C7_HistoricalRootsReadable ==
    \A i \in 1..Len(roots) :
        LET o == open(file, roots[i].r, FALSE) IN
        o.ok /\ View(o.v) = roots[i].view

\* C10: after a successful flush the file ends with the Root entry the flush
\* returned: the last byte is the entry's length, the byte that many bytes
\* before the end is the tag 1 at the returned offset, the offset after the
\* tag is that of a radix entry, and the length byte follows it directly.
C10_TrailingRootWellFormed ==
    FlushedNow =>
        LET end == Len(file)
            n == file[end]
            start == end - n
            ro == read_vlq_at(file, start + 1)
        IN  /\ n < 128
            /\ start = last.v
            /\ buf_get(file, start) = Ok(TYPE_ROOT)
            /\ ro.ok
            /\ buf_get(file, ro.v) = Ok(TYPE_RADIX)
            /\ start + 1 + ro.len = end - 1
            /\ n = 1 + ro.len + 1

\* A flush whose Root holds a two-byte radix offset.
C10_Witness ==
    FlushedNow /\ read_vlq_at(file, last.v + 1).ok /\ read_vlq_at(file, last.v + 1).len = 2

\* C8: after a flush was interrupted before its Root entry was complete,
\* opening the file finds the root of the last successful flush and reads
\* what a handle opened at that root reads.
C8_CrashKeepsLastRoot ==
    (last.op = "crash" /\ roots # <<>>) =>
        LET o == open(file, 0, FALSE)
            committed == open(file, roots[Len(roots)].r, FALSE)
        IN  /\ o.ok
            /\ committed.ok
            /\ o.v.root = committed.v.root
            /\ View(o.v) = View(committed.v)

\* C9: when flush returns an error, the root found from the end of the file
\* is the one found when flush was called.
C9_FailedFlushKeepsTip ==
    [][(last'.op = "flush" /\ ~last'.ok) =>
          Tip(file') = IF pending[last'.h] # <<>> THEN pending[last'.h][1].tip
                       ELSE Tip(file)]_vars

(***************************************************************************)
(* The entries of a file, read one after the other from the header on.     *)
(***************************************************************************)

\* The n VLQ values from byte offset pos of f on, and the offset after them.
RECURSIVE ScanVlqs(_, _, _)
ScanVlqs(f, pos, n) ==
    IF n = 0 THEN [ok |-> TRUE, vs |-> <<>>, pos |-> pos]
    ELSE LET r == read_vlq_at(f, pos) IN
         IF ~r.ok THEN [ok |-> FALSE, vs |-> <<>>, pos |-> pos]
         ELSE LET rest == ScanVlqs(f, pos + r.len, n - 1) IN
              [ok |-> rest.ok, vs |-> <<r.v>> \o rest.vs, pos |-> rest.pos]

\* The number of children of the radix entry at byte offset pos of f.
RadixChildren(f, pos) ==
    Cardinality({i \in 1..JUMPTABLE_BYTES : pos + TYPE_BYTES + i <= Len(f)
                                            /\ f[pos + TYPE_BYTES + i] # 0})

\* The entry at byte offset pos of f: its type, the offsets it stores and
\* the byte offset after it.
ScanEntry(f, pos) ==
    LET ty == f[pos + 1] IN
    IF ty = TYPE_KEY
    THEN LET n == read_vlq_at(f, pos + 1) IN
         [ok |-> n.ok /\ pos + 1 + n.len + n.v <= Len(f), ty |-> ty, at |-> pos,
          refs |-> <<>>, pos |-> IF n.ok THEN pos + 1 + n.len + n.v ELSE pos]
    ELSE IF ty = TYPE_LINK
    THEN LET r == ScanVlqs(f, pos + 1, 2) IN
         [ok |-> r.ok, ty |-> ty, at |-> pos, refs |-> Tail(r.vs), pos |-> r.pos]
    ELSE IF ty = TYPE_LEAF
    THEN LET r == ScanVlqs(f, pos + 1, 2) IN
         [ok |-> r.ok, ty |-> ty, at |-> pos, refs |-> r.vs, pos |-> r.pos]
    ELSE IF ty = TYPE_RADIX
    THEN LET r == ScanVlqs(f, pos + TYPE_BYTES + JUMPTABLE_BYTES,
                           1 + RadixChildren(f, pos))
         IN  [ok |-> r.ok, ty |-> ty, at |-> pos, refs |-> r.vs, pos |-> r.pos]
    ELSE IF ty = TYPE_ROOT
    THEN LET r == ScanVlqs(f, pos + 1, 2) IN
         [ok |-> r.ok, ty |-> ty, at |-> pos,
          refs |-> IF r.ok THEN <<r.vs[1]>> ELSE <<>>, pos |-> r.pos]
    ELSE [ok |-> FALSE, ty |-> ty, at |-> pos, refs |-> <<>>, pos |-> pos]

\* The entries of f from byte offset pos on; the scan stops at an entry it
\* cannot read, which is then the last of the sequence, with ok FALSE.
RECURSIVE ScanEntries(_, _)
ScanEntries(f, pos) ==
    IF pos >= Len(f) THEN <<>>
    ELSE LET e == ScanEntry(f, pos) IN
         IF ~e.ok THEN <<e>> ELSE <<e>> \o ScanEntries(f, e.pos)

\* The entries of a file, after its header byte.
Entries(f) == ScanEntries(f, TYPE_BYTES)

\* C11: every entry of the file can be read, and every offset stored in a
\* Root, Radix, Leaf or Link entry is null or an on-disk offset (not dirty)
\* below the file length.
C11_NoDirtyOffsetOnDisk ==
    \A i \in 1..Len(Entries(file)) :
        LET e == Entries(file)[i] IN
        /\ e.ok
        /\ \A j \in 1..Len(e.refs) :
              /\ ~is_dirty(e.refs[j])
              /\ e.refs[j] < Len(file)

\* A flush has written a leaf and a radix that were staged with dirty
\* references to a key, a link and the leaf.
C11_Witness ==
    /\ FlushedNow
    /\ Len(roots) >= 2
    /\ \E i \in 1..Len(Entries(file)) :
          LET e == Entries(file)[i] IN
          /\ e.ty = TYPE_LEAF /\ e.at >= roots[Len(roots) - 1].r
          /\ e.refs[1] > roots[Len(roots) - 1].r
          /\ e.refs[2] > roots[Len(roots) - 1].r

\* C12: flush on a writable handle returns 0, and leaves the file and the
\* handle as they are, when the root radix offset of the handle is on disk;
\* otherwise it appends to the file and does not return 0.
C12_FlushNothingIffRootOnDisk ==
    [][(last'.op = "flush" /\ ~handle[last'.h].read_only) =>
          IF is_dirty(handle[last'.h].root)
          THEN /\ ~(last'.ok /\ last'.v = 0)
               /\ Len(file') > Len(file)
          ELSE /\ last'.ok /\ last'.v = 0
               /\ file' = file
               /\ handle' = handle]_vars

\* H1 has flushed its inserts, and its next flush has returned 0.
C12_Witness ==
    /\ last = [h |-> "H1", op |-> "flush", ok |-> TRUE, v |-> 0, err |-> ""]
    /\ count.flushes = 1 /\ count.inserts >= 1
    /\ handle["H1"].maplen = Len(file)
    /\ roots # <<>> /\ roots[Len(roots)].chains = expect["H1"]
    /\ ~is_dirty(handle["H1"].root)

\* C13: on a handle whose file was opened read-only, flush fails with
\* PermissionDenied and changes neither the file nor the handle; insert
\* succeeds, touches only the handle, and the inserted value is then read
\* at the head of the chain of a key, before the chain the key had.  The
\* file is one that no writer ignoring the lock has appended to.
C13_ReadOnlyHandle ==
    [][(/\ last'.h \in Handles /\ handle[last'.h].open /\ handle[last'.h].read_only
        /\ count.foreign = 0) =>
          LET h == last'.h IN
          /\ last'.op = "flush" =>
                /\ ~last'.ok /\ last'.err = "PermissionDenied"
                /\ file' = file /\ handle' = handle
          /\ last'.op = "insert" =>
                /\ last'.ok /\ file' = file
                /\ \E k \in Keys :
                      LET old == Chain(IndexOf(handle[h], file), k)
                          new == Chain(IndexOf(handle'[h], file'), k)
                      IN  /\ new # ChainError /\ new # <<>>
                          /\ Head(new) = ValueOf(count.inserts)
                          /\ old # ChainError => Tail(new) = old]_vars

\* A read-only handle holds an insert of its own and its flush has failed.
C13_Witness ==
    /\ last.op = "flush" /\ last.err = "PermissionDenied"
    /\ count.foreign = 0
    /\ handle[last.h].read_only
    /\ handle[last.h].dirty_links # <<>>
    /\ is_dirty(handle[last.h].root)

\* The types an entry of type ty may refer to with its j-th offset.
RefTypes(ty, j) ==
    IF ty = TYPE_ROOT THEN {TYPE_RADIX}
    ELSE IF ty = TYPE_RADIX THEN (IF j = 1 THEN {TYPE_LINK} ELSE {TYPE_RADIX, TYPE_LEAF})
    ELSE IF ty = TYPE_LEAF THEN (IF j = 1 THEN {TYPE_KEY} ELSE {TYPE_LINK})
    ELSE {TYPE_LINK}

\* Every offset stored in the entries es of a file, from byte offset from
\* on, is null or the offset of an entry of es of the type the reference has.
RefsLand(es, from) ==
    \A i \in 1..Len(es) :
        es[i].at >= from =>
            /\ es[i].ok
            /\ \A j \in 1..Len(es[i].refs) :
                  \/ is_null(es[i].refs[j])
                  \/ \E n \in 1..Len(es) :
                        /\ es[n].at = es[i].refs[j]
                        /\ es[n].ty \in RefTypes(es[i].ty, j)

\* C14: at most one flush is inside its critical section, and, when no
\* writer has bypassed the lock, a flush that has finished its write has
\* appended its buffer, and nothing else, where its seek found the end of
\* the file (L), as one range that ends with its Root entry at the root
\* offset it computed; outside critical sections the file is a sequence of
\* entries closed by a Root, in which every offset written is the offset of
\* the entry it refers to.
C14_FlushesSerialized ==
    /\ [][/\ Cardinality({h \in Handles : pending'[h] # <<>>}) <= 1
          /\ (/\ last'.h \in Handles
              /\ pending[last'.h] # <<>> /\ pending'[last'.h] = <<>>
              /\ count.foreign = 0) =>
                /\ Len(file) = pending[last'.h][1].len + pending[last'.h][1].written
                /\ file' = SubSeq(file, 1, pending[last'.h][1].len)
                              \o pending[last'.h][1].built.buf
                /\ ScanEntry(file', pending[last'.h][1].built.root_offset).ty = TYPE_ROOT
                /\ ScanEntry(file', pending[last'.h][1].built.root_offset).pos = Len(file')
                /\ last'.ok => last'.v = pending[last'.h][1].built.root_offset]_vars
    /\ [](count.foreign = 0 /\ file # <<>> /\ Unlocked =>
             LET es == Entries(file) IN
             /\ es[Len(es)].ok /\ es[Len(es)].ty = TYPE_ROOT
             /\ es[Len(es)].pos = Len(file)
             /\ RefsLand(es, 0))

\* Both handles have flushed staged entries, one after the other, and no
\* other writer has touched the file.
C14_Witness ==
    /\ last.op = "flush" /\ last.ok /\ last.v # 0
    /\ count.flushes = 2 /\ count.foreign = 0
    /\ \A h \in Handles : handle[h].open /\ ~is_dirty(handle[h].root)
    /\ handle["H1"].root # handle["H2"].root

\* C15: when no writer has bypassed the lock, open(path, 0) reads the file
\* with no flush inside its critical section: the file is empty, or it ends
\* with the whole Root entry of the last flush that wrote, and open returns
\* the root that entry holds.
C15_OpenSeesWholeFlush ==
    [][(last'.op = "open" /\ last'.v = 0 /\ count.foreign = 0) =>
          /\ \A g \in Handles : pending[g] = <<>>
          /\ last'.ok
          /\ IF file = <<>> THEN is_dirty(handle'[last'.h].root)
             ELSE LET es == Entries(file) IN
                  /\ es[Len(es)].ok /\ es[Len(es)].ty = TYPE_ROOT
                  /\ es[Len(es)].pos = Len(file)
                  /\ handle'[last'.h].root = es[Len(es)].refs[1]]_vars

\* A handle opened with root offset 0 holds the root written by the flush of
\* the other handle, which is the Root entry that ends the file.
C15_Witness ==
    /\ last.op = "open" /\ last.v = 0 /\ last.ok
    /\ count.flushes >= 1 /\ count.foreign = 0
    /\ \E g \in Handles \ {last.h} :
          /\ handle[g].open
          /\ handle[g].root = handle[last.h].root
          /\ handle[g].maplen = Len(file)
    /\ roots # <<>>
    /\ ScanEntry(file, roots[Len(roots)].r).pos = Len(file)
    /\ ScanEntry(file, roots[Len(roots)].r).refs = <<handle[last.h].root>>

\* C16: when the file a flush maps after its write is not L + |B| bytes
\* long (L the length found by the seek, B the buffer), flush returns
\* UnexpectedEof, and leaves the root of the handle dirty and its staging
\* vectors as they were.
C16_LengthMismatchIsUnexpectedEof ==
    [][(/\ last'.op = "flush" /\ pending[last'.h] # <<>>
        /\ last'.err # "Other"
        /\ Len(file') # pending[last'.h][1].len + Len(pending[last'.h][1].built.buf)) =>
          /\ ~last'.ok /\ last'.err = "UnexpectedEof"
          /\ is_dirty(handle'[last'.h].root)
          /\ handle'[last'.h].root = handle[last'.h].root
          /\ handle'[last'.h].dirty_radixes = handle[last'.h].dirty_radixes
          /\ handle'[last'.h].dirty_leafs = handle[last'.h].dirty_leafs
          /\ handle'[last'.h].dirty_links = handle[last'.h].dirty_links
          /\ handle'[last'.h].dirty_keys = handle[last'.h].dirty_keys]_vars

\* A writer that ignores the lock has appended inside the critical section
\* of a flush that had staged a key, and the flush has returned
\* UnexpectedEof.
C16_Witness ==
    /\ last.op = "flush" /\ last.err = "UnexpectedEof"
    /\ count.foreign = 1
    /\ is_dirty(handle[last.h].root)
    /\ handle[last.h].dirty_keys # <<>>
    /\ handle[last.h].maplen = Len(file)

\* The byte offset after the Root entry of the last flush that succeeded.
CommittedEnd == IF roots = <<>> THEN 0 ELSE ScanEntry(file, roots[Len(roots)].r).pos

\* The file ends with bytes of a flush that did not finish its write.
OrphanTail == file # <<>> /\ CommittedEnd < Len(file)

\* Every offset stored in the entries es, read from byte offset from of f on,
\* is null, or the offset of an entry of es, or the offset below from of an
\* entry of f that can be read, in each case of the type the reference has.
RefsResolve(f, es, from) ==
    \A i \in 1..Len(es) :
        /\ es[i].ok
        /\ \A j \in 1..Len(es[i].refs) :
              \/ is_null(es[i].refs[j])
              \/ /\ es[i].refs[j] >= from
                 /\ \E n \in 1..Len(es) :
                       /\ es[n].at = es[i].refs[j]
                       /\ es[n].ty \in RefTypes(es[i].ty, j)
              \/ /\ es[i].refs[j] < from
                 /\ ScanEntry(f, es[i].refs[j]).ok
                 /\ ScanEntry(f, es[i].refs[j]).ty \in RefTypes(es[i].ty, j)

\* C17: a flush of staged entries on a file that ends with the bytes of an
\* unfinished write succeeds; it keeps those bytes and appends after them; the
\* file then ends with its Root entry; every offset it wrote is the offset
\* of an entry of the expected type, written by it or found in the file
\* before it; and every key that had values on the handle before the flush
\* has the same values on the handle and on a handle opened afterwards.
C17_FlushAfterOrphanBytes ==
    [][(/\ last'.op = "flush" /\ last'.err # "WriteZero"
        /\ is_dirty(handle[last'.h].root)
        /\ OrphanTail) =>
          \E pre \in {View(IndexOf(handle[last'.h], file))},
             post \in {View(IndexOf(handle'[last'.h], file'))},
             fresh \in {open(file', 0, FALSE)},
             es \in {ScanEntries(file', Len(file))} :
              /\ last'.ok /\ last'.v > Len(file)
              /\ SubSeq(file', 1, Len(file)) = file
              /\ es[Len(es)].ty = TYPE_ROOT
              /\ es[Len(es)].at = last'.v
              /\ es[Len(es)].pos = Len(file')
              /\ RefsResolve(file, es, Len(file))
              /\ fresh.ok /\ fresh.v.root = handle'[last'.h].root
              /\ \A k \in Keys :
                    (pre[k] # ChainError /\ pre[k] # <<>>) =>
                        /\ post[k] = pre[k]
                        /\ Chain(fresh.v, k) = pre[k]]_vars

\* A flush has succeeded after an unfinished write: reading entries from
\* the end of the Root committed before does not arrive at the new Root,
\* because of the orphan bytes in between, and the handle reads a key
\* inserted before the flush.
C17_Witness ==
    /\ FlushedNow
    /\ count.crashes = 1
    /\ Len(roots) >= 2
    /\ LET es == ScanEntries(file, ScanEntry(file, roots[Len(roots) - 1].r).pos)
       IN  es[Len(es)].at # last.v
    /\ \E k \in Keys : /\ Len(expect[last.h][k]) >= 2
                        /\ Chain(Index_(last.h), k) = expect[last.h][k]

(***************************************************************************)
(* SpecSplit: inserts of keys that share prefixes, on one handle, so that  *)
(* the walk of insert_advanced reaches leaves at several depths.           *)
(***************************************************************************)

\* 12, 13, 1234, 1235 and 1278 in hexadecimal.
SplitKeys == {<<18>>, <<19>>, <<18, 52>>, <<18, 53>>, <<18, 120>>}

\* Inserts of one behaviour of SpecSplit.
MaxSplitInserts == 3

\* index.insert(key, value) on handle h returned r.
SplitInserted(h, key, r) ==
    /\ handle' = [handle EXCEPT ![h] = HandleOf(r.index, handle[h].maplen)]
    /\ last' = [h |-> h, op |-> "insert", ok |-> r.ok, v |-> 0, err |-> ErrOf(r),
                key |-> key]
    /\ count' = [count EXCEPT !.inserts = @ + 1]
    /\ UNCHANGED <<file, expect, roots, pending>>

SplitInsert(h, key) ==
    /\ handle[h].open
    /\ count.inserts < MaxSplitInserts
    /\ SplitInserted(h, key, insert(IndexOf(handle[h], file), key,
                                    ValueOf(count.inserts)))

NextSplit ==
    \/ \E h \in Handles, k \in SplitKeys : SplitInsert(h, k)
    \/ \E h \in Handles : Flush(h)

SpecSplit == Init /\ [][NextSplit]_vars

\* The radix entry at a radix offset, staged or on disk.
MemRadix_of(index, radix) ==
    IF is_dirty(radix) THEN vec_get(index.dirty_radixes, dirty_index(radix))
    ELSE MemRadix_read_from(index.buf, radix)

\* The walk of insert_advanced down to a leaf: the leaf reached after step
\* nibbles, its parent radix and child slot, and the number of radix entries
\* the walk copies; leaf is FALSE if the walk does not end at a leaf.
RECURSIVE insert_walk(_, _, _, _, _, _, _)
insert_walk(index, nibbles, offset, step, last_radix, last_child, copies) ==
    LET t == to_typed(offset, index.buf) IN
    IF ~t.ok THEN [leaf |-> FALSE]
    ELSE IF t.v = TYPE_RADIX
    THEN IF step >= Len(nibbles) \/ ~MemRadix_of(index, offset).ok THEN [leaf |-> FALSE]
         ELSE IF is_null(MemRadix_of(index, offset).v.offsets[nibbles[step + 1]])
         THEN [leaf |-> FALSE]
         ELSE insert_walk(index, nibbles,
                          MemRadix_of(index, offset).v.offsets[nibbles[step + 1]],
                          step + 1, offset, nibbles[step + 1],
                          IF is_dirty(offset) THEN copies ELSE copies + 1)
    ELSE IF t.v = TYPE_LEAF
    THEN LET kl == LeafOffset_key_and_link_offset(offset, index) IN
         IF ~kl.ok \/ ~KeyOffset_key_content(kl.key_offset, index).ok
         THEN [leaf |-> FALSE]
         ELSE [leaf |-> TRUE, step |-> step, at |-> offset, copies |-> copies,
               old_key |-> KeyOffset_key_content(kl.key_offset, index).v,
               old_link |-> kl.link_offset]
    ELSE [leaf |-> FALSE]

\* The entry reached from offset through the radix children named by nibbles;
\* null if the way leaves the radix entries.
RECURSIVE follow(_, _, _)
follow(index, offset, nibbles) ==
    IF nibbles = <<>> \/ is_null(offset) THEN offset
    ELSE IF to_typed(offset, index.buf) # Ok(TYPE_RADIX) THEN 0
    ELSE IF ~MemRadix_of(index, offset).ok THEN 0
    ELSE follow(index, MemRadix_of(index, offset).v.offsets[Head(nibbles)],
                Tail(nibbles))

\* The child slots in use of the radix entry at a radix offset.
Children(index, radix) ==
    {i \in 0..15 : ~is_null(MemRadix_of(index, radix).v.offsets[i])}

\* The number of leading nibbles two nibble sequences share.
RECURSIVE CommonNibbles(_, _)
CommonNibbles(a, b) ==
    IF a = <<>> \/ b = <<>> THEN 0
    ELSE IF Head(a) # Head(b) THEN 0
    ELSE 1 + CommonNibbles(Tail(a), Tail(b))

\* The radix entries that split_leaf creates between the parent and the
\* terminal radix: one per nibble n in step..d-1 of the new key, each new,
\* with no link and the next radix of the chain as its only child.
SplitChain(pre, post, w, new, d) ==
    \A n \in w.step..(d - 1) :
        \E r \in {follow(post, post.root, SubSeq(new, 1, n))} :
            /\ is_dirty(r) /\ to_typed(r, post.buf) = Ok(TYPE_RADIX)
            /\ dirty_index(r) >= Len(pre.dirty_radixes) + w.copies
            /\ Children(post, r) = {new[n + 1]}
            /\ MemRadix_of(post, r).v.link_offset = 0

\* The leaf at offset leaf is staged, holds key in a key entry staged by this
\* insert, and its link holds the one value.
NewLeaf(pre, post, leaf, key, value) ==
    /\ is_dirty(leaf) /\ to_typed(leaf, post.buf) = Ok(TYPE_LEAF)
    /\ dirty_index(leaf) = Len(pre.dirty_leafs)
    /\ \E kl \in {LeafOffset_key_and_link_offset(leaf, post)} :
          /\ kl.ok
          /\ is_dirty(kl.key_offset) /\ dirty_index(kl.key_offset) = Len(pre.dirty_keys)
          /\ KeyOffset_key_content(kl.key_offset, post) = Ok(key)
          /\ chain_from(post, kl.link_offset, MaxChain) = <<value>>

\* The shape after a split of diverging keys.
SplitDiverging(pre, post, w, new_key, value, old, new, d) ==
    /\ Len(post.dirty_radixes) = Len(pre.dirty_radixes) + w.copies + (d - w.step + 1)
    /\ Len(post.dirty_leafs) = Len(pre.dirty_leafs) + 1
    /\ Len(post.dirty_keys) = Len(pre.dirty_keys) + 1
    /\ SplitChain(pre, post, w, new, d)
    /\ \E t \in {follow(post, post.root, SubSeq(new, 1, d))} :
          /\ is_dirty(t) /\ to_typed(t, post.buf) = Ok(TYPE_RADIX)
          /\ dirty_index(t) >= Len(pre.dirty_radixes) + w.copies
          /\ Children(post, t) = {old[d + 1], new[d + 1]}
          /\ MemRadix_of(post, t).v.link_offset = 0
          /\ MemRadix_of(post, t).v.offsets[old[d + 1]] = w.at
          /\ NewLeaf(pre, post, MemRadix_of(post, t).v.offsets[new[d + 1]], new_key, value)
    /\ Chain(pre, w.old_key) # ChainError
    /\ Chain(post, w.old_key) = Chain(pre, w.old_key)
    /\ Chain(post, new_key) = <<value>>
    /\ d % 2 = 0 => get(post, SubSeq(new_key, 1, d \div 2)) = Ok(0)

\* C18: when insert reaches, after step nibbles, a leaf whose key and the
\* inserted key share exactly d >= step leading nibbles, neither being a
\* prefix of the other, it creates d - step + 1 radix entries: a chain of
\* single-child radixes from the child slot of the parent down to a
\* terminal radix that holds the old leaf at the next nibble of the old key
\* and a new leaf, with a new key entry, at the next nibble of the new key;
\* the old key then reads its old chain, the new key the new value, and the
\* common prefix null.
C18_SplitDivergingKeys ==
    [][last'.op = "insert" =>
          \E pre \in {IndexOf(handle[last'.h], file)},
             post \in {IndexOf(handle'[last'.h], file')},
             new \in {Base16Iter(last'.key)} :
            \E w \in {insert_walk(pre, new, pre.root, 0, 0, 0, 0)} :
              (w.leaf /\ CommonNibbles(Base16Iter(w.old_key), new) < Len(new)
                      /\ CommonNibbles(Base16Iter(w.old_key), new) < Len(Base16Iter(w.old_key))) =>
                  /\ last'.ok
                  /\ CommonNibbles(Base16Iter(w.old_key), new) >= w.step
                  /\ SplitDiverging(pre, post, w, last'.key, ValueOf(count.inserts),
                                    Base16Iter(w.old_key), new,
                                    CommonNibbles(Base16Iter(w.old_key), new))]_vars

\* 1235 has been inserted after 1234 and another key, reaching the leaf of
\* 1234 after three nibbles: the split has made one radix, and both keys
\* are read.
C18_Witness ==
    /\ last.op = "insert" /\ last.ok /\ "key" \in DOMAIN last
    /\ last.key = <<18, 53>>
    /\ count.inserts = 3
    /\ Chain(Index_("H1"), <<18, 53>>) = <<ValueOf(2)>>
    /\ Chain(Index_("H1"), <<18, 52>>) # <<>>
    /\ Chain(Index_("H1"), <<18, 120>>) # <<>>
    /\ Children(Index_("H1"), follow(Index_("H1"), handle["H1"].root, <<1, 2, 3>>)) = {4, 5}

\* The offsets reachable from entry offset through radix children.
RECURSIVE ReachableFrom(_, _, _)
ReachableFrom(index, offset, fuel) ==
    IF is_null(offset) THEN {}
    ELSE IF fuel = 0 \/ to_typed(offset, index.buf) # Ok(TYPE_RADIX) THEN {offset}
    ELSE IF ~MemRadix_of(index, offset).ok THEN {offset}
    ELSE {offset} \cup UNION {ReachableFrom(index, MemRadix_of(index, offset).v.offsets[i],
                                             fuel - 1) : i \in 0..15}

\* Longest key of SplitKeys, in nibbles.
MaxNibbles == 4

\* The shape after a split where the new key is a proper prefix of the key
\* of the old leaf.
SplitNewIsPrefix(pre, post, w, new_key, value, old, new, d) ==
    /\ Len(post.dirty_radixes) = Len(pre.dirty_radixes) + w.copies + (d - w.step + 1)
    /\ post.dirty_leafs = pre.dirty_leafs
    /\ post.dirty_keys = pre.dirty_keys
    /\ SplitChain(pre, post, w, new, d)
    /\ \E t \in {follow(post, post.root, new)} :
          /\ is_dirty(t) /\ to_typed(t, post.buf) = Ok(TYPE_RADIX)
          /\ dirty_index(t) >= Len(pre.dirty_radixes) + w.copies
          /\ Children(post, t) = {old[d + 1]}
          /\ MemRadix_of(post, t).v.offsets[old[d + 1]] = w.at
          /\ get(post, new_key) = Ok(MemRadix_of(post, t).v.link_offset)
          /\ chain_from(post, MemRadix_of(post, t).v.link_offset, MaxChain) = <<value>>
    /\ Chain(pre, w.old_key) # ChainError
    /\ Chain(post, w.old_key) = Chain(pre, w.old_key)
    /\ get(post, w.old_key) = get(pre, w.old_key)

SplitOldIsPrefix(pre, post, w, new_key, value, old, new, d) ==
    /\ Len(post.dirty_radixes) = Len(pre.dirty_radixes) + w.copies + (d - w.step + 1)
    /\ Len(post.dirty_leafs) = Len(pre.dirty_leafs) + 1
    /\ Len(post.dirty_keys) = Len(pre.dirty_keys) + 1
    /\ SplitChain(pre, post, w, new, d)
    /\ \E t \in {follow(post, post.root, old)} :
          /\ is_dirty(t) /\ to_typed(t, post.buf) = Ok(TYPE_RADIX)
          /\ dirty_index(t) >= Len(pre.dirty_radixes) + w.copies
          /\ Children(post, t) = {new[d + 1]}
          /\ MemRadix_of(post, t).v.link_offset = w.old_link
          /\ NewLeaf(pre, post, MemRadix_of(post, t).v.offsets[new[d + 1]], new_key, value)
    /\ w.at \notin ReachableFrom(post, post.root, MaxNibbles + 1)
    /\ w.at \in ReachableFrom(pre, pre.root, MaxNibbles + 1)
    /\ Chain(pre, w.old_key) # ChainError
    /\ get(post, w.old_key) = get(pre, w.old_key)
    /\ Chain(post, w.old_key) = Chain(pre, w.old_key)
    /\ Chain(post, new_key) = <<value>>

MaxAdvInserts == 3

\* index.insert_advanced(key, value, link) on handle h returned r.
AdvInserted(h, key, value, link, r) ==
    /\ handle' = [handle EXCEPT ![h] = HandleOf(r.index, handle[h].maplen)]
    /\ last' = [h |-> h, op |-> "insert_advanced", ok |-> r.ok, v |-> 0,
                err |-> ErrOf(r), key |-> key, value |-> value, link |-> link]
    /\ count' = [count EXCEPT !.inserts = @ + 1]
    /\ UNCHANGED <<file, expect, roots, pending>>

AdvCall(h, key, value, link) ==
    AdvInserted(h, key, value, link,
                insert_advanced(IndexOf(handle[h], file), key, value, link))

\* index.insert_advanced(key, value, link) on handle h: value is None or the
\* next value, link is None or what get(src) returns on the handle.
AdvInsert(h, key, with_value, with_link, src) ==
    /\ handle[h].open
    /\ count.inserts < MaxAdvInserts
    /\ IF with_link THEN get(IndexOf(handle[h], file), src).ok ELSE src = <<>>
    /\ AdvCall(h, key, IF with_value THEN ValueOf(count.inserts) ELSE None,
               IF with_link THEN get(IndexOf(handle[h], file), src).v ELSE None)

NextAdv ==
    \/ \E h \in Handles, k \in Keys, with_value \in BOOLEAN, with_link \in BOOLEAN, src \in Keys :
          AdvInsert(h, k, with_value, with_link, src)
    \/ \E h \in Handles : Flush(h)

SpecAdv == Init /\ [][NextAdv]_vars

\* C21: insert_advanced(K, value, link L).  With a value V, get(K) is then
\* a link entry created by the call, with value V and next L; without a
\* value, get(K) is then L and no link entry is created.  The file and the
\* link entries staged before are as they were, so the chain from L reads
\* the same.
C21_InsertAdvancedWithLink ==
    [][(last'.op = "insert_advanced" /\ last'.link # None) =>
          \E pre \in {IndexOf(handle[last'.h], file)},
             post \in {IndexOf(handle'[last'.h], file')} :
            \E g \in {get(post, last'.key)} :
              /\ last'.ok /\ g.ok
              /\ file' = file
              /\ SubSeq(post.dirty_links, 1, Len(pre.dirty_links)) = pre.dirty_links
              /\ chain_from(post, last'.link, MaxChain + 1)
                    = chain_from(pre, last'.link, MaxChain + 1)
              /\ IF last'.value # None
                 THEN /\ Len(post.dirty_links) = Len(pre.dirty_links) + 1
                      /\ g.v = from_dirty_index(Len(pre.dirty_links), TYPE_LINK)
                      /\ LinkOffset_value(g.v, post) = Ok(last'.value)
                      /\ LinkOffset_next(g.v, post) = Ok(last'.link)
                 ELSE /\ post.dirty_links = pre.dirty_links
                      /\ g.v = last'.link]_vars

\* Key 12 has been given a new value in front of the chain of another key,
\* which had a value: the two keys share the tail.
C21_Witness ==
    /\ last.op = "insert_advanced" /\ last.ok
    /\ last.value # None /\ last.link # None /\ ~is_null(last.link)
    /\ last.key = <<18>>
    /\ \E k \in Keys \ {<<18>>} :
          /\ get(Index_(last.h), k) = Ok(last.link)
          /\ Len(Chain(Index_(last.h), k)) >= 1
          /\ Chain(Index_(last.h), <<18>>) = <<last.value>> \o Chain(Index_(last.h), k)

\* C22: insert_advanced(K, none, none) succeeds, get of every key returns
\* what it returned before, no link entry is created, and the root of the
\* handle is then dirty, so that flush on a writable handle appends a Root.
C22_MarkDirtyKeepsValues ==
    [][(last'.op = "insert_advanced" /\ last'.value = None /\ last'.link = None) =>
          \E pre \in {IndexOf(handle[last'.h], file)},
             post \in {IndexOf(handle'[last'.h], file')} :
              /\ last'.ok
              /\ \A k \in Keys : get(post, k) = get(pre, k)
              /\ post.dirty_links = pre.dirty_links
              /\ is_dirty(post.root)
              /\ flush(post, file').ret.ok
              /\ flush(post, file').ret.v >= Len(file')]_vars

(***************************************************************************)
(* Index::clone.                                                           *)
(***************************************************************************)
\* Mutant of clone: the staging vectors are not copied.
clone_shallow(index, f) ==
    LET m == mmap_readonly(f) IN
    IF Len(m.buf) < Len(index.buf) THEN Err(InvalidData)
    ELSE Ok([index EXCEPT !.buf = m.buf, !.dirty_radixes = <<>>,
                          !.dirty_leafs = <<>>, !.dirty_links = <<>>,
                          !.dirty_keys = <<>>])

\* index.clone(), where the duplicated file handle maps the bytes f.
clone(index, f) ==
    LET m == mmap_readonly(f) IN
    IF Len(m.buf) < Len(index.buf) THEN Err(InvalidData)
    ELSE Ok([index EXCEPT !.buf = m.buf])

\* The bytes the duplicated file handle of h maps: the file, or, when
\* something outside the API cut the file, one byte less than h has mapped.
CloneSees(h, short) ==
    IF short THEN SubSeq(file, 1, handle[h].maplen - 1) ELSE file

\* g = h.clone() returned r; an earlier Index held by g is dropped.
Cloned(h, g, short, r) ==
    /\ handle' = IF r.ok THEN [handle EXCEPT ![g] = HandleOf(r.v, Len(file))]
                 ELSE handle
    /\ expect' = IF r.ok THEN [expect EXCEPT ![g] = expect[h]] ELSE expect
    /\ last' = [h |-> g, op |-> "clone", ok |-> r.ok, v |-> 0,
                err |-> ErrOf(r), of |-> h, short |-> short]
    /\ UNCHANGED <<file, roots, count, pending>>

Clone(h, g, short) ==
    /\ handle[h].open
    /\ g # h
    /\ short => handle[h].maplen > 0
    /\ Cloned(h, g, short, clone(IndexOf(handle[h], file), CloneSees(h, short)))

NextClone ==
    \/ \E h \in Handles, g \in Handles, short \in BOOLEAN : Clone(h, g, short)
    \/ \E h \in Handles, k \in Keys : Insert(h, k)
    \/ \E h \in Handles : Flush(h)

SpecClone == Init /\ [][NextClone]_vars

\* C23: clone returns a handle with the root and the staged entries of the
\* original, on which get returns for every key what it returns on the
\* original; clone fails and returns no handle when the new mapping is
\* shorter than the original's; an insert or a flush on one handle leaves
\* the results of get on every other handle as they were.
C23_CloneCopiesThenIndependent ==
    /\ [][last'.op = "clone" =>
            \E src \in {IndexOf(handle[last'.of], file)} :
                IF last'.short
                THEN ~last'.ok /\ last'.err = InvalidData /\ handle' = handle
                ELSE /\ last'.ok
                     /\ \E new \in {IndexOf(handle'[last'.h], file')} :
                            /\ new.root = src.root
                            /\ new.read_only = src.read_only
                            /\ new.dirty_radixes = src.dirty_radixes
                            /\ new.dirty_leafs = src.dirty_leafs
                            /\ new.dirty_links = src.dirty_links
                            /\ new.dirty_keys = src.dirty_keys
                            /\ Len(new.buf) >= Len(src.buf)
                            /\ Gets(new) = Gets(src)
                            /\ View(new) = View(src)
                     /\ handle'[last'.of] = handle[last'.of]]_vars
    /\ [][last'.op \in {"insert", "flush"} =>
            \A g \in Handles \ {last'.h} :
                handle[g].open =>
                    /\ handle'[g].open
                    /\ Gets(IndexOf(handle'[g], file')) = Gets(IndexOf(handle[g], file))
                    /\ View(IndexOf(handle'[g], file')) = View(IndexOf(handle[g], file))]_vars

\* A clone was made of a handle that holds inserted keys not yet flushed,
\* on a file that an earlier flush of the other handle made longer than the
\* original's mapping.
C23_Witness ==
    /\ last.op = "clone" /\ last.ok
    /\ handle[last.of].dirty_links # <<>>
    /\ handle[last.h].dirty_links = handle[last.of].dirty_links
    /\ handle[last.h].maplen > handle[last.of].maplen
    /\ \E k \in Keys : get(Index_(last.h), k).ok /\ is_dirty(get(Index_(last.h), k).v)

\* The radix entry at byte offset at of f: every child slot whose
\* jump-table byte j is not 0 holds, at at + j, a VLQ that is the offset of
\* a byte with the type tag of a radix or of a leaf.
JumpsLand(f, at) ==
    \A i \in 0..(JUMPTABLE_BYTES - 1) :
        \E j \in {f[at + TYPE_BYTES + i + 1]} :
            j # 0 =>
                \E c \in {read_vlq_at(f, at + j)} :
                    /\ c.ok
                    /\ c.v # 0 /\ c.v < Len(f)
                    /\ f[c.v + 1] \in {TYPE_RADIX, TYPE_LEAF}

\* C24: in a file written only by flushes of the handles, every entry can
\* be read and every offset stored in an entry is null or the offset of the
\* first byte of an entry of the type the reference has: Root to Radix,
\* Radix link to Link, Radix child to Radix or Leaf (also when read through
\* the jump table), Leaf to Key and Link, Link next to Link.
C24_StoredOffsetsAreTyped ==
    file # <<>> =>
        \E es \in {Entries(file)} :
            /\ \A i \in 1..Len(es) : es[i].ok
            /\ es[Len(es)].pos = Len(file)
            /\ RefsLand(es, TYPE_BYTES)
            /\ \A i \in 1..Len(es) :
                  es[i].ty = TYPE_RADIX => JumpsLand(file, es[i].at)

\* A flush has appended, after the roots the file started with, a Link
\* whose next is an older Link, a Leaf, and a Radix with a child and a link.
C24_Witness ==
    /\ last.op = "flush" /\ last.ok /\ last.v # 0
    /\ Len(roots) >= 2
    /\ \E es \in {ScanEntries(file, ScanEntry(file, roots[Len(roots) - 1].r).pos)} :
          /\ \E i \in 1..Len(es) :
                es[i].ty = TYPE_LINK /\ es[i].refs[1] # 0 /\ es[i].refs[1] < es[1].at
          /\ \E i \in 1..Len(es) : es[i].ty = TYPE_LEAF
          /\ \E i \in 1..Len(es) :
                /\ es[i].ty = TYPE_RADIX /\ es[i].refs[1] # 0
                /\ \E j \in 2..Len(es[i].refs) : es[i].refs[j] > es[1].at

\* Following the offsets stored in the entry at byte offset at of f, and in
\* the entries they lead to, ends at null offsets within fuel steps.
RECURSIVE DiskWalkEnds(_, _, _)
DiskWalkEnds(f, at, fuel) ==
    \/ at = 0
    \/ /\ fuel > 0
       /\ \E e \in {ScanEntry(f, at)} :
             \A j \in 1..Len(e.refs) : DiskWalkEnds(f, e.refs[j], fuel - 1)

\* C25: every offset stored in an entry of the file is null or smaller than
\* the offset of the entry that stores it; following stored offsets from any
\* entry (a link chain, the tree below a root or a radix) ends at null.
C25_StoredOffsetsPointBack ==
    file # <<>> =>
        \E es \in {Entries(file)} :
            \A i \in 1..Len(es) :
                /\ es[i].ok
                /\ \A j \in 1..Len(es[i].refs) :
                      is_null(es[i].refs[j]) \/ es[i].refs[j] < es[i].at
                /\ DiskWalkEnds(file, es[i].at, Len(es))

\* A flush has written a radix below the root radix it wrote, and a link
\* that continues a chain of two links on disk.
C25_Witness ==
    /\ last.op = "flush" /\ last.ok /\ last.v # 0
    /\ Len(roots) >= 2
    /\ \E es \in {ScanEntries(file, ScanEntry(file, roots[Len(roots) - 1].r).pos)} :
          /\ \E i \in 1..Len(es), n \in 1..Len(es) :
                /\ es[i].ty = TYPE_RADIX /\ es[n].ty = TYPE_RADIX
                /\ \E j \in 2..Len(es[i].refs) : es[i].refs[j] = es[n].at
          /\ \E i \in 1..Len(es) :
                /\ es[i].ty = TYPE_LINK /\ es[i].refs[1] # 0
                /\ ScanEntry(file, es[i].refs[1]).refs[1] # 0

\* The leaves below the entry at offset, which is reached from the root
\* along the nibbles of path: the path and the offset of each.  An entry
\* that is neither a radix nor a leaf is listed as well.
RECURSIVE LeavesBelow(_, _, _, _)
LeavesBelow(index, offset, path, fuel) ==
    IF is_null(offset) THEN {}
    ELSE IF fuel = 0 \/ to_typed(offset, index.buf) # Ok(TYPE_RADIX)
    THEN {[path |-> path, at |-> offset]}
    ELSE IF ~MemRadix_of(index, offset).ok THEN {[path |-> path, at |-> offset]}
    ELSE UNION {LeavesBelow(index, MemRadix_of(index, offset).v.offsets[i],
                            Append(path, i), fuel - 1) : i \in 0..15}

\* The key stored by the leaf at offset leaf.
LeafKey(index, leaf) ==
    KeyOffset_key_content(LeafOffset_key_and_link_offset(leaf, index).key_offset, index)

\* The invariants of the tree below the root of an index.
TreeShape(index, leaves) ==
    /\ \A l \in leaves :
          /\ to_typed(l.at, index.buf) = Ok(TYPE_LEAF)
          /\ LeafOffset_key_and_link_offset(l.at, index).ok
          /\ LeafKey(index, l.at).ok
          /\ \E nibbles \in {Base16Iter(LeafKey(index, l.at).v)} :
                /\ Len(l.path) <= Len(nibbles)
                /\ SubSeq(nibbles, 1, Len(l.path)) = l.path
                /\ \E r \in {follow(index, index.root, nibbles)} :
                      (~is_null(r) /\ to_typed(r, index.buf) = Ok(TYPE_RADIX)) =>
                          is_null(MemRadix_of(index, r).v.link_offset)
    /\ \A l1 \in leaves, l2 \in leaves :
          LeafKey(index, l1.at) = LeafKey(index, l2.at) => l1 = l2

\* C26: on every open handle, the leaves reachable from the root store
\* different keys, each leaf stores a key whose nibbles start with the path
\* the leaf is reached by, and no key of a leaf is also bound by the link of
\* a radix at the end of the key's nibbles.
C26_TreeShape ==
    \A h \in Handles :
        handle[h].open =>
            \E index \in {Index_(h)} :
                TreeShape(index, LeavesBelow(index, index.root, <<>>, MaxNibbles + 1))

\* A handle whose tree has two leaves at paths of three nibbles, one on
\* disk and one staged, below radixes that bind two keys with their links.
C26_Witness ==
    \E h \in Handles :
        /\ handle[h].open
        /\ \E index \in {Index_(h)} :
              \E leaves \in {LeavesBelow(index, index.root, <<>>, MaxNibbles + 1)} :
                  /\ Cardinality(leaves) >= 2
                  /\ \E l \in leaves : is_dirty(l.at)
                  /\ \E l \in leaves : ~is_dirty(l.at)
                  /\ \E l \in leaves : Len(l.path) = 3
                  /\ get(index, <<18>>).ok /\ ~is_null(get(index, <<18>>).v)
                  /\ get(index, <<>>).ok /\ ~is_null(get(index, <<>>).v)

\* The read a typed offset of type ty offers: the value of a link, the
\* content of a key, the key and link of a leaf, the link of a radix.
Deref(ty, offset, index) ==
    IF ty = TYPE_LINK THEN LinkOffset_value(offset, index)
    ELSE IF ty = TYPE_KEY THEN KeyOffset_key_content(offset, index)
    ELSE IF ty = TYPE_LEAF THEN LeafOffset_key_and_link_offset(offset, index)
    ELSE RadixOffset_link_offset(offset, index)

\* T::from_offset(offset), then the read of T on the typed offset it made.
TypedDeref(ty, offset, index) ==
    IF ~from_offset(offset, index.buf, ty).ok THEN from_offset(offset, index.buf, ty)
    ELSE Deref(ty, offset, index)

\* C27: on every open handle, making a typed offset of any of the four
\* types from the null offset, from an offset whose tag byte is of another
\* type, or from the offset at the end of the buffer, and reading through
\* it, reports InvalidData; so does LinkOffset::value on the null link.
C27_DerefChecksOffset ==
    \A h \in Handles :
        handle[h].open =>
            \E index \in {Index_(h)} :
                \A ty \in {TYPE_RADIX, TYPE_LEAF, TYPE_LINK, TYPE_KEY}, o \in 0..Len(index.buf) :
                    (o = 0 \/ buf_get(index.buf, o) # Ok(ty)) =>
                        /\ ~TypedDeref(ty, o, index).ok
                        /\ TypedDeref(ty, o, index).err = "InvalidData"

\* The staged entries a raw dirty offset may name in the check of C28.
MaxDirtyIndex == 2

\* The raw offsets of an index: every on-disk offset up to one past the
\* end of the buffer, and every dirty offset of index 0..MaxDirtyIndex with
\* any three low bits.
RawOffsets(index) ==
    (1..(Len(index.buf) + 1))
        \cup {DIRTY_OFFSET + n : n \in 0..((MaxDirtyIndex + 1) * (2 ^ TYPE_BITS) - 1)}

\* The tag of a non-null raw offset: the low TYPE_BITS bits of a dirty
\* offset, the byte at an on-disk offset, None past the end of the buffer.
TagOf(offset, buf) ==
    IF offset >= DIRTY_OFFSET THEN (offset - DIRTY_OFFSET) % 8
    ELSE IF offset < Len(buf) THEN buf[offset + 1]
    ELSE None

\* C28: on every open handle, for each of the types Radix, Leaf, Link and
\* Key and every non-null raw offset, T::from_offset returns the offset when
\* the tag of the offset is the tag of T and InvalidData otherwise; to_typed
\* returns InvalidData on the null offset and on every offset whose tag is
\* not one of the four, the header and root tags among them.
C28_TypedOffsetIffTag ==
    \A h \in Handles :
        handle[h].open =>
            \E index \in {Index_(h)} :
                /\ to_typed(0, index.buf) = InvalidData
                /\ \A o \in RawOffsets(index) :
                      /\ \A ty \in {TYPE_RADIX, TYPE_LEAF, TYPE_LINK, TYPE_KEY} :
                            from_offset(o, index.buf, ty) =
                                IF TagOf(o, index.buf) = ty THEN Ok(o) ELSE InvalidData
                      /\ TagOf(o, index.buf) \in {TYPE_HEAD, TYPE_ROOT} =>
                            to_typed(o, index.buf) = InvalidData
                      /\ to_typed(o, index.buf).ok <=>
                            TagOf(o, index.buf) \in {TYPE_RADIX, TYPE_LEAF, TYPE_LINK, TYPE_KEY}

\* A handle with a staged root, a staged link and Root entries on disk: the
\* offset of a Root entry is no Radix offset, the staged link is no Leaf
\* offset, and the staged root is a Radix offset.
C28_Witness ==
    \E h \in Handles :
        /\ handle[h].open /\ roots # <<>>
        /\ handle[h].maplen > roots[1].r
        /\ from_offset(roots[1].r, Index_(h).buf, TYPE_RADIX) = InvalidData
        /\ to_typed(roots[1].r, Index_(h).buf) = InvalidData
        /\ is_dirty(handle[h].root)
        /\ from_offset(handle[h].root, Index_(h).buf, TYPE_RADIX) = Ok(handle[h].root)
        /\ handle[h].dirty_links # <<>>
        /\ from_offset(from_dirty_index(0, TYPE_LINK), Index_(h).buf, TYPE_LEAF) = InvalidData
        /\ to_typed(from_dirty_index(0, TYPE_LINK), Index_(h).buf) = Ok(TYPE_LINK)

\* C29: the empty key is bound by the link of the root radix.  On every
\* open handle get([]) is the link offset of the root radix.  An insert of
\* a value for [] stages one link, no leaf and no key, and get([]) is then
\* that link, holding the value before the old chain; an insert for a
\* non-empty key leaves get([]) as it was; a flush leaves the chain of []
\* as it was, readable through the on-disk root radix of the handle and of
\* a handle opened at the new root.
C29_EmptyKeyAtRootLink ==
    /\ [](\A h \in Handles :
             handle[h].open =>
                 /\ get(Index_(h), <<>>).ok
                 /\ get(Index_(h), <<>>) = RadixOffset_link_offset(handle[h].root, Index_(h)))
    /\ [][(last'.op = "insert_advanced" /\ last'.value # None) =>
            \E pre \in {IndexOf(handle[last'.h], file)}, post \in {IndexOf(handle'[last'.h], file')} :
                /\ last'.ok
                /\ IF last'.key = <<>>
                   THEN /\ post.dirty_leafs = pre.dirty_leafs
                        /\ post.dirty_keys = pre.dirty_keys
                        /\ Len(post.dirty_links) = Len(pre.dirty_links) + 1
                        /\ get(post, <<>>) = Ok(from_dirty_index(Len(pre.dirty_links), TYPE_LINK))
                        /\ LinkOffset_value(get(post, <<>>).v, post) = Ok(last'.value)
                        /\ LinkOffset_next(get(post, <<>>).v, post) =
                              Ok(IF last'.link = None THEN get(pre, <<>>).v ELSE last'.link)
                   ELSE get(post, <<>>) = get(pre, <<>>)]_vars
    /\ [][(last'.op = "flush" /\ last'.ok /\ last'.v # 0) =>
            \E pre \in {IndexOf(handle[last'.h], file)}, post \in {IndexOf(handle'[last'.h], file')} :
                /\ ~is_dirty(get(post, <<>>).v)
                /\ Chain(post, <<>>) = Chain(pre, <<>>)
                /\ Chain(open(file', last'.v, FALSE).v, <<>>) = Chain(pre, <<>>)
                /\ get(open(file', last'.v, FALSE).v, <<>>) = get(post, <<>>)]_vars

\* A flush has written a root radix whose link binds the empty key to a
\* value, below which a non-empty key inserted after the empty key is bound.
C29_Witness ==
    /\ last.op = "flush" /\ last.ok /\ last.v # 0
    /\ count.inserts >= 2
    /\ get(Index_(last.h), <<>>).ok
    /\ ~is_null(get(Index_(last.h), <<>>).v)
    /\ Len(Chain(Index_(last.h), <<>>)) = 1
    /\ \E k \in Keys \ {<<>>} :
          /\ get(Index_(last.h), k).ok
          /\ get(Index_(last.h), k).v > get(Index_(last.h), <<>>).v

\* The radix staged at dirty index n of pre was written at offset d of the
\* buffer of post, with the offsets it holds translated by offset_map:
\* child(i) for every nibble i, and link_offset, read from the bytes.
RadixAgrees(pre, post, offset_map, n, d) ==
    /\ RadixOffset_link_offset(d, post) =
          Ok(to_disk(pre.dirty_radixes[n + 1].link_offset, offset_map))
    /\ \A i \in 0..15 :
          RadixOffset_child(d, post, i) =
              Ok(to_disk(pre.dirty_radixes[n + 1].offsets[i], offset_map))

\* C30: after a flush that writes, every radix it wrote reads from the
\* bytes as it was staged: link_offset and child(i), for each nibble i, are
\* the translated link and child i of the staged entry, and child(i) is the
\* null offset where the staged child was null.
C30_DiskRadixAgreesWithStaged ==
    [][(last'.op = "flush" /\ last'.ok /\ last'.v # 0) =>
          \E pre \in {IndexOf(handle[last'.h], file)}, post \in {IndexOf(handle'[last'.h], file')} :
              \E offset_map \in {flush_buf(pre, Len(file)).offset_map} :
                  \A n \in 0..(Len(pre.dirty_radixes) - 1) :
                      RadixAgrees(pre, post, offset_map, n,
                                  offset_map[from_dirty_index(n, TYPE_RADIX)])]_vars

\* The entries met from the root of index along the nibbles of key: the
\* radix reached after each prefix of the nibbles, and the leaf that ends
\* the walk, if any.
PathOffsets(index, key) ==
    {follow(index, index.root, SubSeq(Base16Iter(key), 1, n)) :
        n \in 0..Len(Base16Iter(key))} \ {0}

\* C31: insert_advanced writes nothing to the file or to the mapped bytes
\* and does not panic; after it has succeeded the root and every radix on
\* the path to the key are staged entries, a leaf on the path is staged
\* unless it is the leaf the key had before, and every entry staged before
\* the call is still staged at its index.
C31_CopyOnWrite ==
    [][last'.op = "insert_advanced" =>
          \E pre \in {IndexOf(handle[last'.h], file)}, post \in {IndexOf(handle'[last'.h], file')} :
              /\ file' = file
              /\ post.buf = pre.buf
              /\ last'.err # "panic" /\ post.panic = ""
              /\ last'.ok
              /\ is_dirty(post.root)
              /\ \A o \in PathOffsets(post, last'.key) :
                    \/ is_dirty(o)
                    \/ /\ to_typed(o, post.buf) = Ok(TYPE_LEAF)
                       /\ o \in PathOffsets(pre, last'.key)
                       /\ get(post, last'.key) = get(pre, last'.key)
              /\ Len(post.dirty_radixes) >= Len(pre.dirty_radixes)
              /\ Len(post.dirty_leafs) >= Len(pre.dirty_leafs)
              /\ SubSeq(post.dirty_links, 1, Len(pre.dirty_links)) = pre.dirty_links
              /\ SubSeq(post.dirty_keys, 1, Len(pre.dirty_keys)) = pre.dirty_keys]_vars

\* An insert on a handle whose root was on disk has left the root radix,
\* two more radixes and the leaf on the path to the key in the staging area.
C31_Witness ==
    /\ last.op = "insert_advanced" /\ last.ok
    /\ count.inserts = 1 /\ count.flushes = 0
    /\ file # <<>>
    /\ Len(handle[last.h].dirty_radixes) >= 3
    /\ handle[last.h].dirty_leafs # <<>>
    /\ \A o \in PathOffsets(Index_(last.h), last.key) : is_dirty(o)
    /\ Cardinality(PathOffsets(Index_(last.h), last.key)) >= 4

\* A reference held by a staged entry names, when it is dirty, an entry of
\* type ty staged at an index of the set among.
DirtyRefIn(offset, ty, among) ==
    is_dirty(offset) =>
        /\ (offset - DIRTY_OFFSET) % (2 ^ TYPE_BITS) = ty
        /\ dirty_index(offset) \in among

\* The order of the staging vectors of an index: a link names only links
\* staged before it, a leaf names staged keys and links, a radix names
\* staged links and leaves and only radixes staged after it.
StagingOrdered(index) ==
    /\ \A i \in 1..Len(index.dirty_links) :
          DirtyRefIn(index.dirty_links[i].next_link_offset, TYPE_LINK, 0..(i - 2))
    /\ \A i \in 1..Len(index.dirty_leafs) :
          /\ DirtyRefIn(index.dirty_leafs[i].key_offset, TYPE_KEY,
                        0..(Len(index.dirty_keys) - 1))
          /\ DirtyRefIn(index.dirty_leafs[i].link_offset, TYPE_LINK,
                        0..(Len(index.dirty_links) - 1))
    /\ \A i \in 1..Len(index.dirty_radixes) :
          /\ DirtyRefIn(index.dirty_radixes[i].link_offset, TYPE_LINK,
                        0..(Len(index.dirty_links) - 1))
          /\ \A x \in 0..15 :
                \/ DirtyRefIn(index.dirty_radixes[i].offsets[x], TYPE_RADIX,
                              i..(Len(index.dirty_radixes) - 1))
                \/ /\ is_dirty(index.dirty_radixes[i].offsets[x])
                   /\ DirtyRefIn(index.dirty_radixes[i].offsets[x], TYPE_LEAF,
                                 0..(Len(index.dirty_leafs) - 1))

\* C32: on every open handle a staged link names only links staged before
\* it and a staged radix only radixes staged after it, so the buffer flush
\* builds from the staging vectors finds a translation for every dirty
\* offset; no flush ends in the panic of a missing translation.
C32_StagingOrder ==
    /\ [](\A h \in Handles :
             handle[h].open =>
                 /\ StagingOrdered(Index_(h))
                 /\ ~flush_buf(Index_(h), Len(file)).panic)
    /\ [][last'.op = "flush" => last'.err # "panic"]_vars

\* A handle has staged a link that continues a link staged before it, and
\* a radix whose child is a radix staged after it.
C32_Witness ==
    \E h \in Handles :
        /\ handle[h].open
        /\ last.op = "insert_advanced" /\ last.h = h /\ last.ok
        /\ \E i \in 2..Len(handle[h].dirty_links) :
              is_dirty(handle[h].dirty_links[i].next_link_offset)
        /\ \E i \in 1..Len(handle[h].dirty_radixes), x \in 0..15 :
              /\ is_dirty(handle[h].dirty_radixes[i].offsets[x])
              /\ to_typed(handle[h].dirty_radixes[i].offsets[x], <<0>>) = Ok(TYPE_RADIX)
              /\ dirty_index(handle[h].dirty_radixes[i].offsets[x]) >= i

\* Where the entry staged at a dirty offset is found in es, the entries a
\* flush of index appended: keys, links and leaves in staging order, then
\* the radixes in reverse staging order.
PlaceOf(index, offset) ==
    LET ty == (offset - DIRTY_OFFSET) % (2 ^ TYPE_BITS)
        i == dirty_index(offset)
        k == Len(index.dirty_keys)
        l == Len(index.dirty_links)
        m == Len(index.dirty_leafs)
        r == Len(index.dirty_radixes)
    IN  IF ty = TYPE_KEY THEN i + 1
        ELSE IF ty = TYPE_LINK THEN k + i + 1
        ELSE IF ty = TYPE_LEAF THEN k + l + i + 1
        ELSE k + l + m + r - i

\* The offset a reference of a staged entry is written as.
Translated(index, es, offset) ==
    IF is_dirty(offset) THEN es[PlaceOf(index, offset)].at ELSE offset

\* The type of the n-th entry a flush of index appends.
TypeAt(index, n) ==
    IF n <= Len(index.dirty_keys) THEN TYPE_KEY
    ELSE IF n <= Len(index.dirty_keys) + Len(index.dirty_links) THEN TYPE_LINK
    ELSE IF n <= Len(index.dirty_keys) + Len(index.dirty_links) + Len(index.dirty_leafs)
    THEN TYPE_LEAF
    ELSE IF n <= Len(index.dirty_keys) + Len(index.dirty_links)
                    + Len(index.dirty_leafs) + Len(index.dirty_radixes)
    THEN TYPE_RADIX
    ELSE TYPE_ROOT

\* The bytes f2 hold, from byte offset start on, the entries es, which are
\* the staged entries of index in the order of flush, each reference
\* translated, closed by a Root that names the root radix.
FlushLayout(index, f2, es) ==
    /\ Len(es) = Len(index.dirty_keys) + Len(index.dirty_links)
                    + Len(index.dirty_leafs) + Len(index.dirty_radixes) + 1
    /\ \A n \in 1..Len(es) : es[n].ok /\ es[n].ty = TypeAt(index, n)
    /\ es[Len(es)].pos = Len(f2)
    /\ es[Len(es)].refs = <<Translated(index, es, index.root)>>
    /\ \A i \in 1..Len(index.dirty_keys) :
          MemKey_read_from(f2, es[PlaceOf(index, from_dirty_index(i - 1, TYPE_KEY))].at)
              = Ok(index.dirty_keys[i])
    /\ \A i \in 1..Len(index.dirty_links) :
          MemLink_read_from(f2, es[PlaceOf(index, from_dirty_index(i - 1, TYPE_LINK))].at)
              = Ok([value |-> index.dirty_links[i].value,
                    next_link_offset |->
                        Translated(index, es, index.dirty_links[i].next_link_offset)])
    /\ \A i \in 1..Len(index.dirty_leafs) :
          MemLeaf_read_from(f2, es[PlaceOf(index, from_dirty_index(i - 1, TYPE_LEAF))].at)
              = Ok([key_offset |-> Translated(index, es, index.dirty_leafs[i].key_offset),
                    link_offset |-> Translated(index, es, index.dirty_leafs[i].link_offset)])
    /\ \A i \in 1..Len(index.dirty_radixes) :
          MemRadix_read_from(f2, es[PlaceOf(index, from_dirty_index(i - 1, TYPE_RADIX))].at)
              = Ok([offsets |-> [x \in 0..15 |->
                                    Translated(index, es, index.dirty_radixes[i].offsets[x])],
                    link_offset |->
                        Translated(index, es, index.dirty_radixes[i].link_offset)])

\* C33: a flush on a handle whose root is dirty keeps the L bytes of the
\* file and appends, from L on and without a gap, the header byte if L = 0,
\* the staged keys, links and leaves in staging order, the staged radixes
\* in reverse staging order and the Root, whose offset it returns; every
\* reference is written as the offset of the entry it names.  The first
\* flush on a new file with nothing inserted writes 22 bytes, the header at
\* 0, the empty radix at 1 and the Root at 19, and returns 19.
C33_FlushLayout ==
    [][(last'.op = "flush" /\ is_dirty(handle[last'.h].root)) =>
          \E pre \in {IndexOf(handle[last'.h], file)} :
              /\ last'.ok /\ Len(file') > Len(file)
              /\ SubSeq(file', 1, Len(file)) = file
              /\ file = <<>> => file'[1] = TYPE_HEAD
              /\ \E es \in {ScanEntries(file', IF file = <<>> THEN 1 ELSE Len(file))} :
                    /\ FlushLayout(pre, file', es)
                    /\ last'.v = es[Len(es)].at
              /\ (file = <<>> /\ pre.dirty_radixes = <<MemRadix_default>>
                    /\ pre.dirty_links = <<>> /\ pre.dirty_leafs = <<>>) =>
                    /\ Len(file') = 22 /\ last'.v = 19
                    /\ file'[2] = TYPE_RADIX /\ file'[20] = TYPE_ROOT]_vars

\* A flush has appended staged keys, links, leaves and three or more
\* radixes to a file that held entries, after the flush of the new file
\* wrote its 22 bytes.
C33_Witness ==
    /\ last.op = "flush" /\ last.ok /\ last.v # 0
    /\ Len(roots) >= 2 /\ roots[1].r = 19
    /\ \E es \in {ScanEntries(file, ScanEntry(file, roots[Len(roots) - 1].r).pos)} :
          /\ Cardinality({n \in 1..Len(es) : es[n].ty = TYPE_KEY}) >= 1
          /\ Cardinality({n \in 1..Len(es) : es[n].ty = TYPE_LINK}) >= 2
          /\ Cardinality({n \in 1..Len(es) : es[n].ty = TYPE_LEAF}) >= 2
          /\ Cardinality({n \in 1..Len(es) : es[n].ty = TYPE_RADIX}) >= 3
          /\ es[Len(es)].ty = TYPE_ROOT /\ es[Len(es)].at = last.v

\* The four staging vectors of a handle are empty.
StagingEmpty(hd) ==
    /\ hd.dirty_radixes = <<>> /\ hd.dirty_leafs = <<>>
    /\ hd.dirty_links = <<>> /\ hd.dirty_keys = <<>>

\* C34: on every open handle the root radix offset is on disk exactly when
\* the four staging vectors are empty, and a dirty root is the radix staged
\* at index 0; after a flush that succeeded, having written or not, the
\* staging vectors are empty, and after one that wrote, the root is the one
\* the Root entry at the end of the file holds.
C34_RootDirtyIffStaged ==
    /\ [](\A h \in Handles :
             handle[h].open =>
                 /\ ~is_dirty(handle[h].root) <=> StagingEmpty(handle[h])
                 /\ is_dirty(handle[h].root) =>
                       /\ handle[h].root = from_dirty_index(0, TYPE_RADIX)
                       /\ handle[h].dirty_radixes # <<>>)
    /\ [][(last'.op = "flush" /\ last'.ok) =>
            /\ StagingEmpty(handle'[last'.h])
            /\ ~is_dirty(handle'[last'.h].root)
            /\ last'.v # 0 =>
                  /\ handle'[last'.h].maplen = Len(file')
                  /\ MemRoot_read_from_end(file', Len(file')) = Ok(handle'[last'.h].root)
                  /\ MemRoot_read_from(file', last'.v) = Ok(handle'[last'.h].root)]_vars

\* A handle has flushed: its staging vectors are empty and its root is a
\* radix on disk written after the first one of the file, while the other
\* handle still holds a dirty root and a staged leaf.
C34_Witness ==
    /\ last.op = "flush" /\ last.ok /\ last.v # 0
    /\ count.inserts >= 2
    /\ StagingEmpty(handle[last.h])
    /\ handle[last.h].root > 19
    /\ \E g \in Handles \ {last.h} :
          /\ handle[g].open /\ is_dirty(handle[g].root)
          /\ handle[g].dirty_leafs # <<>>

\* C35: insert_advanced(K, ...) leaves every other key as it was: for every
\* key other than K, get denotes the same value chain before and after the
\* call.
C35_InsertKeepsOtherKeys ==
    [][last'.op = "insert_advanced" =>
          \E pre \in {IndexOf(handle[last'.h], file)}, post \in {IndexOf(handle'[last'.h], file')} :
              \A k \in Keys \ {last'.key} :
                  /\ get(post, k).ok = get(pre, k).ok
                  /\ Chain(post, k) = Chain(pre, k)]_vars

\* The type tags an entry of the tree starts with.
EntryTags == {TYPE_RADIX, TYPE_LEAF, TYPE_LINK, TYPE_KEY}

\* C36: when no writer has bypassed the lock, a file that is not empty
\* starts with the header byte, followed by the first byte of an entry;
\* outside critical sections every byte after the header belongs to an
\* entry that can be read, so no second header exists, and no root is at
\* offset 0.  The buffer of a flush starts with the header exactly when the
\* flush found the file empty after taking the lock, and its first byte is
\* written where the file ended then.
C36_OneHeader ==
    /\ []((count.foreign = 0 /\ file # <<>>) =>
             /\ file[1] = TYPE_HEAD
             /\ Len(file) >= 2 /\ file[2] \in EntryTags
             /\ \A i \in 1..Len(roots) : roots[i].r >= TYPE_BYTES
             /\ Unlocked =>
                   \E es \in {Entries(file)} :
                       /\ \A n \in 1..Len(es) : es[n].ok /\ es[n].at >= TYPE_BYTES
                       /\ es[Len(es)].pos = Len(file))
    /\ [](\A h \in Handles :
             (pending[h] # <<>> /\ count.foreign = 0) =>
                 /\ pending[h][1].built.buf[1] = TYPE_HEAD <=> pending[h][1].len = 0
                 /\ pending[h][1].len = 0 => pending[h][1].built.buf[2] \in EntryTags
                 /\ Len(file) = pending[h][1].len + pending[h][1].written)

\* Two handles were opened on the empty file; each has flushed the root
\* radix it was seeded with, and nothing was inserted.
C36_Witness ==
    /\ count.foreign = 0 /\ count.inserts = 0 /\ count.flushes = 2
    /\ Unlocked
    /\ Len(roots) = 2 /\ roots[1].r = 19
    /\ \A h \in Handles : handle[h].open /\ ~is_dirty(handle[h].root)
    /\ handle["H1"].root # handle["H2"].root
    /\ file[1] = TYPE_HEAD /\ file[23] = TYPE_RADIX

\* What the walk of a tree yields where an entry cannot be read.
BadLink == -3

\* The link the tree below offset binds key to, null if none: the walk of
\* get, with every radix read as MemRadix::read_from reads it (a child slot
\* with jump-table byte 0 is null).
RECURSIVE TreeLink(_, _, _, _)
TreeLink(index, offset, nibbles, key) ==
    IF is_null(offset) THEN 0
    ELSE IF to_typed(offset, index.buf) = Ok(TYPE_RADIX)
    THEN IF ~MemRadix_of(index, offset).ok THEN BadLink
         ELSE IF nibbles = <<>> THEN MemRadix_of(index, offset).v.link_offset
         ELSE TreeLink(index, MemRadix_of(index, offset).v.offsets[Head(nibbles)],
                       Tail(nibbles), key)
    ELSE IF to_typed(offset, index.buf) = Ok(TYPE_LEAF)
    THEN IF ~LeafOffset_key_and_link_offset(offset, index).ok THEN BadLink
         ELSE IF LeafKey(index, offset) = Ok(key)
         THEN LeafOffset_key_and_link_offset(offset, index).link_offset
         ELSE 0
    ELSE BadLink

\* The mapping reachable from the root of an index: for every key the value
\* chain the tree binds it to, <<>> for a key it does not bind.
TreeChain(index, l) ==
    IF l = BadLink THEN ChainError ELSE chain_from(index, l, MaxChain)

TreeView(index) ==
    [k \in Keys |-> TreeChain(index, TreeLink(index, index.root, Base16Iter(k), k))]

\* The mapping reachable from the Root entry at offset r of file f.
TreeViewAt(f, r) ==
    IF open(f, r, FALSE).ok THEN TreeView(open(f, r, FALSE).v) ELSE [k \in Keys |-> ChainError]

\* The number of Root entries among the entries es of a file.
RootCount(es) == Cardinality({n \in 1..Len(es) : es[n].ty = TYPE_ROOT})

\* C37: when no writer has bypassed the lock, the mapping reachable from
\* the Root a flush appends is the mapping reachable from the root of the
\* flushing handle before the flush; get on the new root reads every key of
\* it that has a value; the mapping of every older root is still read at
\* its own offset, unchanged.  When every Root of the file was written by a
\* flush that succeeded, that mapping is the one of the root the handle was
\* opened or last flushed at with the handle's own inserts on top, and the
\* older roots hold what their flushes committed.
C37_TipIsFlushersView ==
    [][(last'.op = "flush" /\ last'.ok /\ last'.v # 0 /\ count.foreign = 0) =>
          \E mine \in {TreeView(IndexOf(handle[last'.h], file))}, tip \in {open(file', 0, FALSE)} :
              /\ \A k \in Keys : mine[k] # ChainError
              /\ tip.ok
              /\ TreeView(tip.v) = mine
              /\ TreeViewAt(file', last'.v) = mine
              /\ \A k \in Keys : mine[k] # <<>> => Chain(tip.v, k) = mine[k]
              /\ \A i \in 1..Len(roots) :
                    TreeViewAt(file', roots[i].r) = TreeViewAt(file, roots[i].r)
              /\ (\E es \in {Entries(file')} : RootCount(es) = Len(roots')) =>
                    /\ mine = expect[last'.h]
                    /\ \A i \in 1..Len(roots) :
                          TreeViewAt(file', roots[i].r) = roots[i].chains]_vars

\* A handle has flushed after the other handle flushed a key it had not
\* seen: the new tip does not hold that key, the older root still does.
C37_Witness ==
    /\ last.op = "flush" /\ last.ok /\ last.v # 0 /\ count.foreign = 0
    /\ Len(roots) >= 2
    /\ roots[Len(roots)].r = last.v
    /\ \E k \in Keys, j \in Keys :
          /\ roots[Len(roots) - 1].chains[k] # <<>>
          /\ roots[Len(roots)].chains[k] = <<>>
          /\ roots[Len(roots)].chains[j] # <<>>
          /\ TreeViewAt(file, 0)[k] = <<>>
          /\ TreeViewAt(file, 0)[j] # <<>>
          /\ TreeViewAt(file, roots[Len(roots) - 1].r)[k] # <<>>

\* What a link offset denotes on an index: its value and its next link.
LinkPair(index, link) == <<LinkOffset_value(link, index), LinkOffset_next(link, index)>>

\* The offsets of the Link entries among the entries es of the mapped
\* bytes of an index.
DiskLinks(es) == {es[n].at : n \in {m \in 1..Len(es) : es[m].ty = TYPE_LINK}}

\* The offsets of the links staged on an index.
StagedLinks(index) ==
    {from_dirty_index(i, TYPE_LINK) : i \in 0..(Len(index.dirty_links) - 1)}

\* C38: across every step, on every handle that stays open, the offset of a
\* Link entry on disk denotes the value and next link it denoted before;
\* across every step that is not a flush of the handle, so does the offset
\* of every link staged on the handle, and the links get returns are among
\* these.
C38_LinkOffsetsStable ==
    [][\A h \in Handles :
          (handle[h].open /\ handle'[h].open) =>
              \E pre \in {IndexOf(handle[h], file)}, post \in {IndexOf(handle'[h], file')} :
                  \E disk \in {DiskLinks(Entries(pre.buf))}, staged \in {StagedLinks(pre)} :
                      /\ \A l \in disk :
                            /\ LinkOffset_value(l, pre).ok /\ LinkOffset_next(l, pre).ok
                            /\ LinkPair(post, l) = LinkPair(pre, l)
                      /\ ~(last'.op = "flush" /\ last'.h = h) =>
                            \A l \in staged :
                                /\ LinkOffset_value(l, pre).ok /\ LinkOffset_next(l, pre).ok
                                /\ LinkPair(post, l) = LinkPair(pre, l)
                      /\ \A k \in Keys :
                            \E l \in {get(pre, k)} :
                                (l.ok /\ ~is_null(l.v)) => l.v \in disk \cup staged]_vars

\* After an insert staged a link for a key, a second insert for the key has
\* staged a link that continues it, on a handle that also reads links on
\* disk.
C38_Witness ==
    /\ last.op = "insert_advanced" /\ last.ok /\ last.value # None
    /\ Len(handle[last.h].dirty_links) >= 2
    /\ \E i \in 2..Len(handle[last.h].dirty_links) :
          /\ handle[last.h].dirty_links[i].next_link_offset = from_dirty_index(i - 2, TYPE_LINK)
          /\ get(Index_(last.h), last.key) = Ok(from_dirty_index(i - 1, TYPE_LINK))
    /\ DiskLinks(Entries(Index_(last.h).buf)) # {}

\* The number of bytes of the VLQ of a value that has bits significant
\* bits: one byte for each seven bits, one byte for 0.
RECURSIVE VlqBytes(_)
VlqBytes(bits) == IF bits <= 7 THEN 1 ELSE 1 + VlqBytes(bits - 7)

\* The number of significant bits of an offset on disk: on-disk offsets are
\* below DIRTY_OFFSET, which is 1 << 63 in the source.
OffsetBits == 63

\* The bytes the children of entry below nibble x take in the Radix entry a
\* flush of index writes for it.
RECURSIVE ChildVlqBytes(_, _, _, _)
ChildVlqBytes(index, es, entry, x) ==
    IF x = 0 THEN 0
    ELSE ChildVlqBytes(index, es, entry, x - 1)
            + (IF is_null(entry.offsets[x - 1]) THEN 0
               ELSE Len(write_vlq(Translated(index, es, entry.offsets[x - 1]))))

\* The distance from the first byte of the Radix entry written for entry
\* to the VLQ of its child x: the type byte, the jump table, the VLQ of the
\* link and the VLQs of the children of the lower nibbles.
JumpDistance(index, es, entry, x) ==
    TYPE_BYTES + JUMPTABLE_BYTES
        + Len(write_vlq(Translated(index, es, entry.link_offset)))
        + ChildVlqBytes(index, es, entry, x)

\* The Radix entry at byte offset at of f2, written by a flush of index
\* for the staged radix entry: the jump-table byte of an absent child is 0,
\* the one of a present child is its distance, in 18..255, at which the
\* VLQ of the child's translated offset stands, and distances grow with the
\* nibble.
RadixJumps(index, f2, es, entry, at) ==
    \A x \in 0..(JUMPTABLE_BYTES - 1) :
        \E j \in {f2[at + TYPE_BYTES + x + 1]} :
            IF is_null(entry.offsets[x]) THEN j = 0
            ELSE /\ j = JumpDistance(index, es, entry, x)
                 /\ j >= 18 /\ j <= 255
                 /\ \E c \in {read_vlq_at(f2, at + j)} :
                       c.ok /\ c.v = Translated(index, es, entry.offsets[x])
                 /\ \A y \in 0..(x - 1) :
                       ~is_null(entry.offsets[y]) =>
                           f2[at + TYPE_BYTES + y + 1] < j

\* The distances of a radix whose link and sixteen children are offsets of
\* OffsetBits bits: VlqBytes agrees with write_vlq on the values the model
\* can hold, the nearest child VLQ stands at 18, and the farthest, after
\* the link and fifteen children of the longest VLQ, at no more than 255;
\* the radix with every offset at DIRTY_OFFSET - 1 is written with these
\* distances.
JumpRange ==
    /\ \A b \in 1..30 :
          /\ Len(write_vlq(2 ^ b - 1)) = VlqBytes(b)
          /\ Len(write_vlq(2 ^ (b - 1))) = VlqBytes(b)
    /\ Len(write_vlq(0)) = VlqBytes(0)
    /\ \A b \in 0..(OffsetBits - 1) : VlqBytes(b) >= 1 /\ VlqBytes(b) <= VlqBytes(b + 1)
    /\ TYPE_BYTES + JUMPTABLE_BYTES + VlqBytes(0) = 18
    /\ TYPE_BYTES + JUMPTABLE_BYTES + JUMPTABLE_BYTES * VlqBytes(OffsetBits) <= 255
    /\ \E b \in {MemRadix_write_to([offsets |-> [x \in 0..15 |-> DIRTY_OFFSET - 1],
                                    link_offset |-> DIRTY_OFFSET - 1], <<>>)} :
          \A x \in 0..(JUMPTABLE_BYTES - 1) :
              /\ b[TYPE_BYTES + x + 1]
                    = TYPE_BYTES + JUMPTABLE_BYTES + (x + 1) * VlqBytes(30)
              /\ b[TYPE_BYTES + x + 1] >= 18 /\ b[TYPE_BYTES + x + 1] <= 255

\* C39: in every Radix entry a flush writes, the jump-table byte of an
\* absent child is 0 and the one of a present child is the distance from
\* the first byte of the entry to the VLQ of that child's offset; the
\* children stand in ascending nibble order; the distance is at least 18
\* and at most 255, also for a radix whose link and children all take the
\* longest VLQ an offset below 2^63 has.
C39_JumpTableLocatesChildren ==
    [][(last'.op = "flush" /\ last'.ok /\ is_dirty(handle[last'.h].root)) =>
          \E pre \in {IndexOf(handle[last'.h], file)} :
              \E es \in {ScanEntries(file', IF file = <<>> THEN 1 ELSE Len(file))} :
                  /\ JumpRange
                  /\ \A i \in 1..Len(pre.dirty_radixes) :
                        RadixJumps(pre, file', es, pre.dirty_radixes[i],
                            es[PlaceOf(pre, from_dirty_index(i - 1, TYPE_RADIX))].at)]_vars

\* A flush has written a Radix entry that has a link and two or more
\* children.
C39_Witness ==
    /\ last.op = "flush" /\ last.ok /\ last.v # 0
    /\ Len(roots) >= 2
    /\ \E es \in {ScanEntries(file, ScanEntry(file, roots[Len(roots) - 1].r).pos)} :
          \E n \in 1..Len(es) :
              /\ es[n].ty = TYPE_RADIX
              /\ \E r \in {MemRadix_read_from(file, es[n].at)} :
                    /\ r.ok /\ ~is_null(r.v.link_offset)
                    /\ Cardinality({x \in 0..15 : ~is_null(r.v.offsets[x])}) >= 2

(***************************************************************************)
(* Index::open on files of any content.  MemRoot::read_from_end computes   *)
(* end - size in u64 without comparing the two: when the last byte of the  *)
(* file decodes to a size above the file length, a build with overflow     *)
(* checks (debug and test profiles) panics, and a build without them       *)
(* wraps to an offset past the mapped bytes, which check_type rejects.     *)
(***************************************************************************)
\* MemRoot::read_from_end in a build with (overflow_checks) or without
\* overflow checks.  MemRoot_read_from_end is the build without: its
\* negative offset stands for the wrapped one, both are outside the buffer.
MemRoot_read_from_end_build(buf, end, overflow_checks) ==
    IF end > 1
    THEN LET s == read_vlq_at(buf, end - 1) IN
         IF ~s.ok THEN s
         ELSE IF s.v > end /\ overflow_checks THEN Panic
         ELSE MemRoot_read_from(buf, end - s.v)
    ELSE InvalidData

\* Index::open on file bytes f in a build with or without overflow checks.
open_build(f, root_offset, read_only, overflow_checks) ==
    LET m == mmap_readonly(f) IN
    IF root_offset = 0 THEN
        IF m.len = 0
        THEN Ok(NewIndex(m.buf, read_only, from_dirty_index(0, TYPE_RADIX),
                         <<MemRadix_default>>))
        ELSE LET root == MemRoot_read_from_end_build(m.buf, m.len, overflow_checks) IN
             IF ~root.ok THEN root
             ELSE Ok(NewIndex(m.buf, read_only, root.v, <<>>))
    ELSE LET root == MemRoot_read_from(m.buf, root_offset) IN
         IF ~root.ok THEN root
         ELSE Ok(NewIndex(m.buf, read_only, root.v, <<>>))

\* The files open is given: the first bytes, of every length, of the file
\* three flushes left, followed by nothing, by a zero byte, by a length
\* that lands on no Root, by a length no file of the model has, or by a
\* Root entry whose radix offset is null, is the one of the first radix,
\* or whose length is wrong or above the file length.
OpenTails ==
    {<<>>, <<0>>, <<3>>, <<127>>, <<TYPE_ROOT, 0, 3>>, <<TYPE_ROOT, 1, 3>>,
     <<TYPE_ROOT, 1, 4>>, <<TYPE_ROOT, 1, 127>>}

OpenFiles ==
    {SubSeq(Seed3.file, 1, n) \o t : n \in 0..Len(Seed3.file), t \in OpenTails}

\* The number of calls of open in a behaviour.
MaxOpens == 1

InitOpen ==
    /\ file \in OpenFiles
    /\ roots = <<>>
    /\ handle = [h \in Handles |-> Closed]
    /\ expect = [h \in Handles |-> NoChains]
    /\ last = [h |-> "H1", op |-> "init", ok |-> TRUE, v |-> 0, err |-> "",
               checks |-> FALSE]
    /\ count = [inserts |-> 0, flushes |-> 0, crashes |-> 0, foreign |-> 0,
                opens |-> 0]
    /\ pending = [h \in Handles |-> <<>>]

\* Index::open(path, root_offset) on handle h returned r.
OpenedFile(h, root_offset, overflow_checks, r) ==
    /\ handle' = IF r.ok THEN [handle EXCEPT ![h] = HandleOf(r.v, Len(file))]
                 ELSE handle
    /\ last' = [h |-> h, op |-> "open", ok |-> r.ok, v |-> root_offset,
                err |-> ErrOf(r), checks |-> overflow_checks]
    /\ count' = [count EXCEPT !.opens = @ + 1]
    /\ UNCHANGED <<file, expect, roots, pending>>

\* Index::open(path, root_offset) makes handle h.
OpenFile(h, root_offset, read_only, overflow_checks) ==
    /\ ~handle[h].open
    /\ count.opens < MaxOpens
    /\ OpenLock(root_offset)
    /\ OpenedFile(h, root_offset, overflow_checks,
                  open_build(file, root_offset, read_only, overflow_checks))

NextOpen ==
    \E h \in Handles, r \in 0..(Len(file) + 1), ro \in BOOLEAN, oc \in BOOLEAN :
        OpenFile(h, r, ro, oc)

SpecOpen == InitOpen /\ [][NextOpen]_vars

\* The bytes of f at offset at are a Root entry: the Root tag, the VLQ of
\* an offset at which f has the Radix tag, and the VLQ of the entry's own
\* length.
WellFormedRoot(f, at) ==
    /\ at >= 0 /\ at < Len(f)
    /\ f[at + 1] = TYPE_ROOT
    /\ \E r \in {read_vlq_at(f, at + 1)} :
          /\ r.ok
          /\ r.v < Len(f) /\ f[r.v + 1] = TYPE_RADIX
          /\ \E l \in {read_vlq_at(f, at + 1 + r.len)} :
                l.ok /\ l.v = 1 + r.len + 1

\* The offset after the Root entry at offset at of f.
RootEnd(f, at) == at + 1 + read_vlq_at(f, at + 1).len + 1

\* C40: open leaves the file as it is.  With a root offset r other than 0
\* it returns a handle only if the bytes at r are a Root entry whose radix
\* offset has the Radix tag and whose length is its own; with root offset 0
\* on a file that has bytes, only if such a Root entry ends at the end of
\* the file.  Otherwise, also when the last byte is a length above the file
\* length, it returns InvalidData and does not panic.
C40_OpenChecksRoot ==
    [][last'.op = "open" =>
          /\ file' = file
          /\ last'.err # "panic"
          /\ ~last'.ok => last'.err = "InvalidData"
          /\ (last'.ok /\ last'.v # 0) => WellFormedRoot(file, last'.v)
          /\ (last'.ok /\ last'.v = 0 /\ file # <<>>) =>
                \E at \in 0..(Len(file) - 1) :
                    WellFormedRoot(file, at) /\ RootEnd(file, at) = Len(file)]_vars

====
